---- MODULE Spec2Model ----
(***************************************************************************)
(* picky-rs: X.509 certificate model, certificate builder and chain        *)
(* verification (picky/src/models/certificate.rs and the modules it uses). *)
(*                                                                         *)
(* Cryptography is symbolic: a digest is the pair (algorithm, input) with  *)
(* the byte length of the algorithm, a signature is the triple (algorithm, *)
(* signing key, message) and verifies only under the matching public key.  *)
(***************************************************************************)
EXTENDS Integers, Sequences, FiniteSets, TLC

(***************************************************************************)
(* Bounds of the model.                                                    *)
(***************************************************************************)
MaxTime == 2
MaxPathlen == 0
MaxChain == 2
MaxSerial == 1
MaxInput == 4

Times == 0..MaxTime
Pathlens == 0..MaxPathlen
Serials == 0..MaxSerial

(***************************************************************************)
(* Option and Result values.                                               *)
(***************************************************************************)
None == [tag |-> "None"]
Some(x) == [tag |-> "Some", v |-> x]
Ok(x) == [tag |-> "Ok", v |-> x]
Err(e) == [tag |-> "Err", error |-> e]
Panic == [tag |-> "Panic"]
Unit == [unit |-> TRUE]

(***************************************************************************)
(* Names (single CommonName) and their display form "CN=<value>".          *)
(***************************************************************************)
Names == {"Root CA", "Authority", "Leaf"}
Display(name) == "CN=" \o name

(***************************************************************************)
(* Keys.  A private key is RSA (PrivateKeyValue has the RSA variant only); *)
(* a public key is RSA or EC.                                              *)
(***************************************************************************)
PrivateKeys == {"rsa1", "rsa2"}
to_public_key(key) == [kind |-> "RSA", id |-> key]
ECPublicKeys == {[kind |-> "EC", id |-> "ec1"]}
PublicKeys == {to_public_key(k) : k \in PrivateKeys} \cup ECPublicKeys

(***************************************************************************)
(* Signature algorithms and their algorithm identifiers.                   *)
(***************************************************************************)
SignatureHashTypes == {"RsaSha1", "RsaSha224", "RsaSha256", "RsaSha384", "RsaSha512"}
SHA1_WITH_RSA_ENCRYPTION == "1.2.840.113549.1.1.5"
SHA224_WITH_RSA_ENCRYPTION == "1.2.840.113549.1.1.14"
SHA256_WITH_RSA_ENCRYPTION == "1.2.840.113549.1.1.11"
SHA384_WITH_RSA_ENCRYPTION == "1.2.840.113549.1.1.12"
SHA512_WITH_RSA_ENCRYPTION == "1.2.840.113549.1.1.13"
ECDSA_WITH_SHA256 == "1.2.840.10045.4.3.2"

AlgorithmIdentifierFrom(ty) ==
    CASE ty = "RsaSha1" -> [algorithm |-> SHA1_WITH_RSA_ENCRYPTION]
      [] ty = "RsaSha224" -> [algorithm |-> SHA224_WITH_RSA_ENCRYPTION]
      [] ty = "RsaSha256" -> [algorithm |-> SHA256_WITH_RSA_ENCRYPTION]
      [] ty = "RsaSha384" -> [algorithm |-> SHA384_WITH_RSA_ENCRYPTION]
      [] ty = "RsaSha512" -> [algorithm |-> SHA512_WITH_RSA_ENCRYPTION]

from_algorithm_identifier_sha384_as_sha512(algorithm_identifier) ==
    CASE algorithm_identifier.algorithm = SHA1_WITH_RSA_ENCRYPTION -> Some("RsaSha1")
      [] algorithm_identifier.algorithm = SHA224_WITH_RSA_ENCRYPTION -> Some("RsaSha224")
      [] algorithm_identifier.algorithm = SHA256_WITH_RSA_ENCRYPTION -> Some("RsaSha256")
      [] algorithm_identifier.algorithm = SHA384_WITH_RSA_ENCRYPTION -> Some("RsaSha512")
      [] algorithm_identifier.algorithm = SHA512_WITH_RSA_ENCRYPTION -> Some("RsaSha512")
      [] OTHER -> None

from_algorithm_identifier(algorithm_identifier) ==
    CASE algorithm_identifier.algorithm = SHA1_WITH_RSA_ENCRYPTION -> Some("RsaSha1")
      [] algorithm_identifier.algorithm = SHA224_WITH_RSA_ENCRYPTION -> Some("RsaSha224")
      [] algorithm_identifier.algorithm = SHA256_WITH_RSA_ENCRYPTION -> Some("RsaSha256")
      [] algorithm_identifier.algorithm = SHA384_WITH_RSA_ENCRYPTION -> Some("RsaSha384")
      [] algorithm_identifier.algorithm = SHA512_WITH_RSA_ENCRYPTION -> Some("RsaSha512")
      [] OTHER -> None

(***************************************************************************)
(* SignatureHashType::sign / verify (RSA PKCS#1 v1.5, symbolic).           *)
(***************************************************************************)
\* a well-formed RSA private key whose components the RSA implementation
\* refuses (RSA_4096_PK_3_UNSUPPORTED of the tests)
UnsupportedPrivateKey == "rsa3_unsupported"

Signature_sign(ty, msg, private_key) ==
    IF private_key = UnsupportedPrivateKey
    THEN Err([kind |-> "Rsa", context |-> "invalid coefficient"])
    ELSE Ok([algo |-> ty, signer |-> private_key, msg |-> msg])

Signature_verify_ec_as_rsa(ty, public_key, msg, signature) ==
    IF /\ signature.algo = ty
       /\ signature.signer = public_key.id
       /\ signature.msg = msg
    THEN Ok(Unit)
    ELSE Err([kind |-> "BadSignature"])

Signature_verify(ty, public_key, msg, signature) ==
    IF public_key.kind = "EC"
    THEN Err([kind |-> "UnsupportedAlgorithm", algorithm |-> "elliptic curves"])
    ELSE IF /\ signature.algo = ty
            /\ signature.signer = public_key.id
            /\ signature.msg = msg
         THEN Ok(Unit)
         ELSE Err([kind |-> "BadSignature"])

(***************************************************************************)
(* Extensions.  A certificate carries a sequence of extensions; the        *)
(* accessors return the value of the first extension of the kind asked or  *)
(* an error when there is none.                                            *)
(***************************************************************************)
new_basic_constraints(ca, pathlen) ==
    [extn_id |-> "BasicConstraints", critical |-> FALSE,
     extn_value |-> [ca |-> ca, path_len_constraint |-> pathlen]]
new_subject_key_identifier(ski) ==
    [extn_id |-> "SubjectKeyIdentifier", critical |-> FALSE,
     extn_value |-> [key_identifier |-> ski]]
new_authority_key_identifier(aki) ==
    [extn_id |-> "AuthorityKeyIdentifier", critical |-> FALSE,
     extn_value |-> [key_identifier |-> aki]]
into_critical(ext) == [ext EXCEPT !.critical = TRUE]
into_non_critical(ext) == [ext EXCEPT !.critical = FALSE]

ExtensionIndexes(cert, id) ==
    {i \in DOMAIN cert.tbs_certificate.extensions :
        cert.tbs_certificate.extensions[i].extn_id = id}

FindExtension(cert, id) ==
    IF ExtensionIndexes(cert, id) = {}
    THEN Err([kind |-> "ExtensionNotFound", extension |-> id])
    ELSE LET first == CHOOSE i \in ExtensionIndexes(cert, id) :
                          \A j \in ExtensionIndexes(cert, id) : i <= j
         IN Ok(cert.tbs_certificate.extensions[first].extn_value)

subject_key_identifier(cert) ==
    LET ext == FindExtension(cert, "SubjectKeyIdentifier")
    IN IF ext.tag = "Ok" THEN Ok(ext.v.key_identifier) ELSE ext

authority_key_identifier(cert) ==
    LET ext == FindExtension(cert, "AuthorityKeyIdentifier")
    IN IF ext.tag = "Ok" THEN Ok(ext.v.key_identifier) ELSE ext

basic_constraints(cert) ==
    LET ext == FindExtension(cert, "BasicConstraints")
    IN IF ext.tag = "Ok"
       THEN Ok([ca |-> ext.v.ca, pathlen |-> ext.v.path_len_constraint])
       ELSE ext

subject_name(cert) == cert.tbs_certificate.subject
issuer_name(cert) == cert.tbs_certificate.issuer
unwrap_or(result, default) == IF result.tag = "Ok" THEN result.v ELSE default

(***************************************************************************)
(* Error context: wrap the error of a failed result in InvalidCertificate. *)
(***************************************************************************)
InvalidCertificate(result, id) ==
    IF result.tag = "Err"
    THEN Err([kind |-> "InvalidCertificate", id |-> id, source |-> result.error])
    ELSE result

(***************************************************************************)
(* Cert::ty: the certificate type, derived from BasicConstraints and the   *)
(* subject and issuer names.                                               *)
(***************************************************************************)
CertTypes == {"Root", "Intermediate", "Leaf", "Unknown"}

Cert_ty(cert) ==
    LET bc == basic_constraints(cert)
        ca == IF bc.tag = "Ok" THEN bc.v.ca ELSE None
    IN IF ca.tag = "Some"
       THEN IF ca.v
            THEN IF subject_name(cert) = issuer_name(cert)
                 THEN "Root"
                 ELSE "Intermediate"
            ELSE "Leaf"
       ELSE "Unknown"

(***************************************************************************)
(* Cert::verify: the validity window against the clock value.              *)
(***************************************************************************)
Cert_verify_exclusive(cert, t) ==
    LET not_before == cert.tbs_certificate.validity.not_before
        not_after == cert.tbs_certificate.validity.not_after
    IN IF not_before >= t
       THEN Err([kind |-> "CertificateNotYetValid", not_before |-> not_before, now |-> t])
       ELSE IF not_after <= t
            THEN Err([kind |-> "CertificateExpired", not_after |-> not_after, now |-> t])
            ELSE Ok(Unit)

Cert_verify(cert, t) ==
    LET not_before == cert.tbs_certificate.validity.not_before
        not_after == cert.tbs_certificate.validity.not_after
    IN IF not_before > t
       THEN Err([kind |-> "CertificateNotYetValid", not_before |-> not_before, now |-> t])
       ELSE IF not_after < t
            THEN Err([kind |-> "CertificateExpired", not_after |-> not_after, now |-> t])
            ELSE Ok(Unit)

(***************************************************************************)
(* Cert::verify_chain, the body of the loop over the chain iterator: the   *)
(* outcome for one parent is an error, "Break" (root reached) or           *)
(* "Continue" (the parent becomes the current certificate).                *)
(***************************************************************************)
VerifyCurrentSignature_parent_id(current, parent) ==
    LET hash_type == from_algorithm_identifier(current.signature_algorithm)
    IN IF hash_type.tag = "None"
       THEN Err([kind |-> "UnsupportedAlgorithm",
                 algorithm |-> current.signature_algorithm.algorithm])
       ELSE InvalidCertificate(
                Signature_verify(hash_type.v,
                                 parent.tbs_certificate.subject_public_key_info,
                                 current.tbs_certificate,
                                 current.signature_value),
                Display(subject_name(parent)))

VerifyCurrentSignature(current, parent) ==
    LET hash_type == from_algorithm_identifier(current.signature_algorithm)
    IN IF hash_type.tag = "None"
       THEN Err([kind |-> "UnsupportedAlgorithm",
                 algorithm |-> current.signature_algorithm.algorithm])
       ELSE InvalidCertificate(
                Signature_verify(hash_type.v,
                                 parent.tbs_certificate.subject_public_key_info,
                                 current.tbs_certificate,
                                 current.signature_value),
                Display(subject_name(current)))

CheckBasicConstraints_off_by_one(parent, number_certs) ==
    LET bc == unwrap_or(basic_constraints(parent), [ca |-> None, pathlen |-> None])
    IN IF bc.ca = Some(FALSE)
       THEN Err([kind |-> "IssuerIsNotCA", issuer_id |-> Display(subject_name(parent))])
       ELSE IF bc.pathlen.tag = "Some" /\ bc.pathlen.v <= number_certs
            THEN Err([kind |-> "CAChainTooDeep",
                      cert_id |-> Display(subject_name(parent)),
                      pathlen |-> bc.pathlen.v])
            ELSE Ok(Unit)

CheckBasicConstraints(parent, number_certs) ==
    LET bc == unwrap_or(basic_constraints(parent), [ca |-> None, pathlen |-> None])
    IN IF bc.ca = Some(FALSE)
       THEN Err([kind |-> "IssuerIsNotCA", issuer_id |-> Display(subject_name(parent))])
       ELSE IF bc.pathlen.tag = "Some" /\ bc.pathlen.v < number_certs
            THEN Err([kind |-> "CAChainTooDeep",
                      cert_id |-> Display(subject_name(parent)),
                      pathlen |-> bc.pathlen.v])
            ELSE Ok(Unit)

CheckKeyIds_no_comparison(current, parent) ==
    LET parent_ski == InvalidCertificate(subject_key_identifier(parent),
                                         Display(subject_name(parent)))
        current_aki == InvalidCertificate(authority_key_identifier(current),
                                          Display(subject_name(current)))
    IN IF parent_ski.tag = "Err" THEN parent_ski
       ELSE IF current_aki.tag = "Err" THEN current_aki
       ELSE Ok(Unit)

CheckKeyIds(current, parent) ==
    LET parent_ski == InvalidCertificate(subject_key_identifier(parent),
                                         Display(subject_name(parent)))
        current_aki == InvalidCertificate(authority_key_identifier(current),
                                          Display(subject_name(current)))
    IN IF parent_ski.tag = "Err" THEN parent_ski
       ELSE IF current_aki.tag = "Err" THEN current_aki
       ELSE IF parent_ski.v # current_aki.v
            THEN Err([kind |-> "AuthorityKeyIdMismatch",
                      expected |-> current_aki.v, actual |-> parent_ski.v])
            ELSE Ok(Unit)

CheckRoot(parent) ==
    LET parent_ski == subject_key_identifier(parent)
        parent_aki == InvalidCertificate(authority_key_identifier(parent),
                                         Display(subject_name(parent)))
    IN IF parent_aki.tag = "Err" THEN parent_aki
       ELSE IF parent_ski.v = parent_aki.v THEN [tag |-> "Break"]
       ELSE [tag |-> "Continue"]

verify_chain_body_ids_first(current, parent, number_certs, t) ==
    LET bc == CheckBasicConstraints(parent, number_certs)
        validity == InvalidCertificate(Cert_verify(parent, t),
                                       Display(subject_name(parent)))
        ids == CheckKeyIds(current, parent)
        sig == VerifyCurrentSignature(current, parent)
    IN IF ids.tag = "Err" THEN ids
       ELSE IF bc.tag = "Err" THEN bc
       ELSE IF validity.tag = "Err" THEN validity
       ELSE IF sig.tag = "Err" THEN sig
       ELSE CheckRoot(parent)

verify_chain_body(current, parent, number_certs, t) ==
    LET bc == CheckBasicConstraints(parent, number_certs)
        validity == InvalidCertificate(Cert_verify(parent, t),
                                       Display(subject_name(parent)))
        ids == CheckKeyIds(current, parent)
        sig == VerifyCurrentSignature(current, parent)
    IN IF bc.tag = "Err" THEN bc
       ELSE IF validity.tag = "Err" THEN validity
       ELSE IF ids.tag = "Err" THEN ids
       ELSE IF sig.tag = "Err" THEN sig
       ELSE CheckRoot(parent)

verify_chain_end_always_ok(root_not_found) == Ok(Unit)

verify_chain_end(root_not_found) ==
    IF root_not_found THEN Err([kind |-> "CAChainNoRoot"]) ELSE Ok(Unit)

\* verify_chain over a chain given whole: the loop, from the parent at the
\* head of chain_
RECURSIVE verify_chain_loop(_, _, _, _)
verify_chain_loop(current, chain_, number_certs, t) ==
    IF Len(chain_) = 0 THEN verify_chain_end(TRUE)
    ELSE LET outcome == verify_chain_body(current, chain_[1], number_certs, t) IN
         IF outcome.tag = "Err" THEN outcome
         ELSE IF outcome.tag = "Break" THEN verify_chain_end(FALSE)
         ELSE verify_chain_loop(chain_[1], Tail(chain_), number_certs + 1, t)

verify_chain(leaf, chain_, t) ==
    LET validity == InvalidCertificate(Cert_verify(leaf, t), Display(subject_name(leaf)))
    IN IF validity.tag = "Err" THEN validity
       ELSE verify_chain_loop(leaf, chain_, 0, t)

(***************************************************************************)
(* Key identifier generation (KeyIdGenMethod::generate_from).  A digest is *)
(* a byte vector known by its algorithm, its input and its length; slicing *)
(* a vector beyond its length panics.                                      *)
(***************************************************************************)
KeyIdHashAlgos == {"Sha1", "Sha224", "Sha256", "Sha384", "Sha512"}
DigestLen(hash_algo) ==
    CASE hash_algo = "Sha1" -> 20
      [] hash_algo = "Sha224" -> 28
      [] hash_algo = "Sha256" -> 32
      [] hash_algo = "Sha384" -> 48
      [] hash_algo = "Sha512" -> 64
hash(hash_algo, input) ==
    [algo |-> hash_algo, input |-> input, len |-> DigestLen(hash_algo)]
SliceTo(bytes, end) ==
    IF end > bytes.len THEN Panic ELSE Ok([bytes EXCEPT !.len = end])

SPKFullDER(hash_algo) == [method |-> "SPKFullDER", hash_algo |-> hash_algo]
SPKValueHashedLeftmost160(hash_algo) ==
    [method |-> "SPKValueHashedLeftmost160", hash_algo |-> hash_algo]

generate_from(method, public_key) ==
    IF method.method = "SPKValueHashedLeftmost160"
    THEN IF public_key.kind = "RSA"
         THEN SliceTo(hash(method.hash_algo,
                           [der |-> "RSAPublicKey", key |-> public_key]), 160)
         ELSE SliceTo(hash(method.hash_algo,
                           [der |-> "BitStringPayload", key |-> public_key]), 160)
    ELSE Ok(hash(method.hash_algo,
                 [der |-> "SubjectPublicKeyInfo", key |-> public_key]))

(***************************************************************************)
(* Jwk::from_public_key: the JSON web key of an RSA public key.            *)
(***************************************************************************)
Jwk_from_public_key(public_key) ==
    IF public_key.kind = "RSA"
    THEN Ok([key |-> [kty |-> "RSA", n |-> [modulus |-> public_key.id],
                      e |-> [public_exponent |-> public_key.id]],
             algorithm |-> None, pub_key_use |-> None, key_operations |-> None,
             key_id |-> None, x509_url |-> None, x509_chain |-> None,
             x509_sha1_thumbprint |-> None, x509_sha256_thumbprint |-> None])
    ELSE Err([kind |-> "UnsupportedAlgorithm", algorithm |-> "elliptic curves"])

(***************************************************************************)
(* Certificates as parsed from DER: the certificates a chain may hold.     *)
(***************************************************************************)
NoCert == [tag |-> "NoCert"]

Certificate(tbs_certificate, signature_algorithm, signature_value) ==
    [tbs_certificate |-> tbs_certificate,
     signature_algorithm |-> signature_algorithm,
     signature_value |-> signature_value]

TBSCertificate(serial, signature, issuer, not_before, not_after, subject, spki, extensions) ==
    [version |-> "V3",
     serial_number |-> serial,
     signature |-> signature,
     issuer |-> issuer,
     validity |-> [not_before |-> not_before, not_after |-> not_after],
     subject |-> subject,
     subject_public_key_info |-> spki,
     extensions |-> extensions]

ChainNames == {"Authority", "Leaf"}
ChainValidities == {<<0, 1>>, <<1, MaxTime>>}
ChainKeyIds == {generate_from(SPKFullDER("Sha256"), to_public_key(k)).v : k \in PrivateKeys}
OptionalKeyIds == {None} \cup {Some(id) : id \in ChainKeyIds}
OptionalBasicConstraints ==
    {None} \cup {Some([ca |-> ca, pathlen |-> pathlen]) :
                    ca \in {None, Some(TRUE), Some(FALSE)},
                    pathlen \in {None} \cup {Some(n) : n \in Pathlens}}
\* (signature algorithm identifier, algorithm of the signature, signing key)
ChainSignatures ==
    {<<AlgorithmIdentifierFrom("RsaSha256"), "RsaSha256", "rsa1">>,
     <<AlgorithmIdentifierFrom("RsaSha256"), "RsaSha256", "rsa2">>,
     <<[algorithm |-> ECDSA_WITH_SHA256], "EcdsaSha256", "rsa1">>}

ParsedExtensions(bc, ski, aki) ==
    (IF bc.tag = "Some" THEN <<new_basic_constraints(bc.v.ca, bc.v.pathlen)>> ELSE <<>>)
    \o (IF ski.tag = "Some" THEN <<new_subject_key_identifier(ski.v)>> ELSE <<>>)
    \o (IF aki.tag = "Some" THEN <<new_authority_key_identifier(aki.v)>> ELSE <<>>)

ParsedCert(subject, validity, spki, bc, ski, aki, sig) ==
    LET tbs == TBSCertificate(0, sig[1], "Root CA", validity[1], validity[2],
                              subject, spki, ParsedExtensions(bc, ski, aki))
    IN Certificate(tbs, sig[1], [algo |-> sig[2], signer |-> sig[3], msg |-> tbs])

\* Every combination of the fields with an RSA key, and the CA certificates
\* with an elliptic-curve key (the signature check is the last of the loop's
\* checks, so only a certificate that passes the others gets its key used).
CertUniverse ==
    {ParsedCert(subject, validity, to_public_key("rsa1"), bc, ski, aki, sig) :
        subject \in ChainNames, validity \in ChainValidities,
        bc \in OptionalBasicConstraints,
        ski \in OptionalKeyIds, aki \in OptionalKeyIds, sig \in ChainSignatures}
    \cup
    {ParsedCert("Authority", validity, spki, Some([ca |-> Some(TRUE), pathlen |-> None]),
                ski, aki, sig) :
        validity \in ChainValidities, spki \in ECPublicKeys,
        ski \in OptionalKeyIds, aki \in OptionalKeyIds, sig \in ChainSignatures}

(***************************************************************************)
(* Certification requests (Csr): generate signs the request info with the  *)
(* subject's key, verify checks that signature under the embedded key.     *)
(***************************************************************************)
Csr_generate(name, private_key, ty) ==
    LET info == [subject |-> name, subject_public_key_info |-> to_public_key(private_key)]
    IN [certification_request_info |-> info,
        signature_algorithm |-> AlgorithmIdentifierFrom(ty),
        signature |-> Signature_sign(ty, info, private_key).v]

Csr_verify(csr) ==
    LET hash_type == from_algorithm_identifier(csr.signature_algorithm)
    IN IF hash_type.tag = "None"
       THEN Err([kind |-> "UnsupportedAlgorithm",
                 algorithm |-> csr.signature_algorithm.algorithm])
       ELSE Signature_verify(hash_type.v,
                             csr.certification_request_info.subject_public_key_info,
                             csr.certification_request_info,
                             csr.signature)

into_subject_infos(csr) ==
    [name |-> csr.certification_request_info.subject,
     public_key |-> csr.certification_request_info.subject_public_key_info]

(***************************************************************************)
(* CertificateBuilder: the inner record of optional fields, its setters    *)
(* and build().                                                            *)
(***************************************************************************)
CertificateBuilder_new ==
    [valid_from |-> None, valid_to |-> None, subject_infos |-> None,
     issuer_infos |-> None, ca |-> None, pathlen |-> None,
     signature_hash_type |-> None, key_id_gen_method |-> None, key_usage |-> None,
     extended_key_usage |-> None, subject_alt_name |-> None, issuer_alt_name |-> None]

SubjectInfos_Csr(csr) == [variant |-> "Csr", csr |-> csr]
SubjectInfos_NameAndPublicKey(name, public_key) ==
    [variant |-> "NameAndPublicKey", name |-> name, public_key |-> public_key]
IssuerInfos_SelfSigned(name, key) == [variant |-> "SelfSigned", name |-> name, key |-> key]
IssuerInfos_Authority(name, key, aki) ==
    [variant |-> "Authority", issuer_name |-> name, issuer_key |-> key, aki |-> aki]

new_key_usage(key_usage) ==
    [extn_id |-> "KeyUsage", critical |-> FALSE, extn_value |-> key_usage]
new_extended_key_usage(extended_key_usage) ==
    [extn_id |-> "ExtendedKeyUsage", critical |-> FALSE,
     extn_value |-> [purposes |-> extended_key_usage]]
new_subject_alt_name(san) ==
    [extn_id |-> "SubjectAltName", critical |-> FALSE, extn_value |-> [names |-> san]]
new_issuer_alt_name(ian) ==
    [extn_id |-> "IssuerAltName", critical |-> FALSE, extn_value |-> [names |-> ian]]

MissingBuilderArgument(arg) == Err([kind |-> "MissingBuilderArgument", arg |-> arg])
CertGeneration(result) ==
    IF result.tag = "Err"
    THEN Err([kind |-> "CertGeneration", source |-> result.error])
    ELSE result

\* Option::take on a field of the inner record
take_clone(inner_, field) == inner_

take(inner_, field) == [inner_ EXCEPT ![field] = None]

option_unwrap_or(option, default) == IF option.tag = "Some" THEN option.v ELSE default

\* build(), the key identifier of a self-signed certificate's issuer
self_signed_aki_default_method(key_id_gen_method, key) ==
    generate_from(SPKFullDER("Sha256"), to_public_key(key))

self_signed_aki(key_id_gen_method, key) ==
    generate_from(key_id_gen_method, to_public_key(key))

\* build(), the match on issuer_infos: the issuer's name, key and key
\* identifier, the subject infos and the inner record left
build_issuer(inner_, issuer_infos, key_id_gen_method) ==
    IF issuer_infos.variant = "SelfSigned"
    THEN LET aki == self_signed_aki(key_id_gen_method, issuer_infos.key)
         IN IF aki.tag # "Ok"
            THEN [tag |-> "Return", inner |-> inner_, ret |-> aki]
            ELSE [tag |-> "Ok", inner |-> inner_,
                  issuer_name |-> issuer_infos.name,
                  issuer_key |-> issuer_infos.key,
                  aki |-> aki.v,
                  subject_infos |-> SubjectInfos_NameAndPublicKey(
                                        issuer_infos.name,
                                        to_public_key(issuer_infos.key))]
    ELSE IF inner_.subject_infos.tag = "None"
         THEN [tag |-> "Return", inner |-> inner_,
               ret |-> MissingBuilderArgument("subject_infos")]
         ELSE [tag |-> "Ok", inner |-> take(inner_, "subject_infos"),
               issuer_name |-> issuer_infos.issuer_name,
               issuer_key |-> issuer_infos.issuer_key,
               aki |-> issuer_infos.aki,
               subject_infos |-> inner_.subject_infos.v]

\* build(), the match on subject_infos
build_subject(subject_infos) ==
    IF subject_infos.variant = "Csr"
    THEN LET verified == Csr_verify(subject_infos.csr)
         IN IF verified.tag = "Err" THEN verified
            ELSE Ok(into_subject_infos(subject_infos.csr))
    ELSE Ok([name |-> subject_infos.name, public_key |-> subject_infos.public_key])

OptionalExtension(option, extension) ==
    IF option.tag = "Some" THEN <<extension>> ELSE <<>>

\* build(), the extensions block
build_extensions_ski_last(ca, pathlen, key_usage_opt, extended_key_usage_opt, subject_alt_name_opt, issuer_alt_name_opt, key_id_gen_method, subject_public_key, aki) ==
    LET basic_constraints_ext ==
            IF key_usage_opt.tag = "Some" /\ key_usage_opt.v.digital_signature
            THEN into_critical(new_basic_constraints(Some(ca), pathlen))
            ELSE into_non_critical(new_basic_constraints(Some(ca), pathlen))
        ski == CertGeneration(generate_from(key_id_gen_method, subject_public_key))
    IN IF ski.tag # "Ok" THEN ski
       ELSE Ok(<<basic_constraints_ext>>
               \o OptionalExtension(key_usage_opt, new_key_usage(key_usage_opt.v))
               \o OptionalExtension(extended_key_usage_opt,
                                    new_extended_key_usage(extended_key_usage_opt.v))
               \o OptionalExtension(subject_alt_name_opt,
                                    new_subject_alt_name(subject_alt_name_opt.v))
               \o OptionalExtension(issuer_alt_name_opt,
                                    new_issuer_alt_name(issuer_alt_name_opt.v))
               \o <<new_authority_key_identifier(aki)>>
               \o <<new_subject_key_identifier(ski.v)>>)

build_extensions(ca, pathlen, key_usage_opt, extended_key_usage_opt, subject_alt_name_opt, issuer_alt_name_opt, key_id_gen_method, subject_public_key, aki) ==
    LET basic_constraints_ext ==
            IF key_usage_opt.tag = "Some" /\ key_usage_opt.v.digital_signature
            THEN into_critical(new_basic_constraints(Some(ca), pathlen))
            ELSE into_non_critical(new_basic_constraints(Some(ca), pathlen))
        ski == CertGeneration(generate_from(key_id_gen_method, subject_public_key))
    IN IF ski.tag # "Ok" THEN ski
       ELSE Ok(<<basic_constraints_ext>>
               \o OptionalExtension(key_usage_opt, new_key_usage(key_usage_opt.v))
               \o OptionalExtension(extended_key_usage_opt,
                                    new_extended_key_usage(extended_key_usage_opt.v))
               \o OptionalExtension(subject_alt_name_opt,
                                    new_subject_alt_name(subject_alt_name_opt.v))
               \o OptionalExtension(issuer_alt_name_opt,
                                    new_issuer_alt_name(issuer_alt_name_opt.v))
               \o <<new_subject_key_identifier(ski.v)>>
               \o <<new_authority_key_identifier(aki)>>)

\* build(), from the subject infos on: the optional fields are taken, the
\* extensions composed, the TBSCertificate assembled and signed
build_certificate(inner_, valid_from, valid_to, signature_hash_type, key_id_gen_method, issuer, serial_number) ==
    LET subject == build_subject(issuer.subject_infos)
        taken == take(take(take(take(take(take(inner_, "ca"), "pathlen"), "key_usage"),
                                "extended_key_usage"), "subject_alt_name"),
                      "issuer_alt_name")
        extensions == build_extensions(option_unwrap_or(inner_.ca, FALSE),
                                       inner_.pathlen, inner_.key_usage,
                                       inner_.extended_key_usage,
                                       inner_.subject_alt_name, inner_.issuer_alt_name,
                                       key_id_gen_method, subject.v.public_key,
                                       issuer.aki)
        tbs_certificate == TBSCertificate(serial_number,
                                          AlgorithmIdentifierFrom(signature_hash_type),
                                          issuer.issuer_name, valid_from, valid_to,
                                          subject.v.name, subject.v.public_key,
                                          extensions.v)
        signature_value == CertGeneration(Signature_sign(signature_hash_type,
                                                         tbs_certificate,
                                                         issuer.issuer_key))
    IN IF subject.tag # "Ok" THEN [inner |-> inner_, ret |-> subject]
       ELSE IF extensions.tag # "Ok" THEN [inner |-> taken, ret |-> extensions]
       ELSE IF signature_value.tag # "Ok" THEN [inner |-> taken, ret |-> signature_value]
       ELSE [inner |-> taken,
             ret |-> Ok(Certificate(tbs_certificate,
                                    AlgorithmIdentifierFrom(signature_hash_type),
                                    signature_value.v))]

\* CertificateBuilder::build: the inner record it leaves and the value it returns
build(inner_, serial_number) ==
    IF inner_.valid_from.tag = "None"
    THEN [inner |-> inner_, ret |-> MissingBuilderArgument("valid_from")]
    ELSE
    LET inner1 == take(inner_, "valid_from") IN
    IF inner1.valid_to.tag = "None"
    THEN [inner |-> inner1, ret |-> MissingBuilderArgument("valid_to")]
    ELSE
    LET inner2 == take(take(take(inner1, "valid_to"), "signature_hash_type"),
                       "key_id_gen_method")
        signature_hash_type == option_unwrap_or(inner_.signature_hash_type, "RsaSha256")
        key_id_gen_method == option_unwrap_or(inner_.key_id_gen_method, SPKFullDER("Sha256"))
    IN
    IF inner2.issuer_infos.tag = "None"
    THEN [inner |-> inner2, ret |-> MissingBuilderArgument("issuer_infos")]
    ELSE
    LET issuer == build_issuer(take(inner2, "issuer_infos"), inner_.issuer_infos.v,
                               key_id_gen_method)
    IN
    IF issuer.tag = "Return"
    THEN [inner |-> issuer.inner, ret |-> issuer.ret]
    ELSE build_certificate(issuer.inner, inner_.valid_from.v, inner_.valid_to.v,
                           signature_hash_type, key_id_gen_method, issuer, serial_number)

\* The certificates verify_chain is called on: of a leaf the call reads the
\* subject, the validity, the AKI, the signature algorithm and the signature.
LeafUniverse ==
    {ParsedCert(subject, validity, to_public_key("rsa2"),
                Some([ca |-> Some(FALSE), pathlen |-> None]),
                Some(generate_from(SPKFullDER("Sha256"), to_public_key("rsa2")).v),
                aki, sig) :
        subject \in ChainNames, validity \in ChainValidities,
        aki \in OptionalKeyIds, sig \in ChainSignatures}

(***************************************************************************)
(* The server.  Encodings: DER of certificates, PKCS#8 of private keys,    *)
(* hex strings, PEM documents and the multihash address of a certificate.  *)
(***************************************************************************)
Cert_to_der(cert) == [der |-> "Certificate", value |-> cert]
Cert_from_der(bytes) ==
    IF bytes.der = "Certificate" THEN Ok(bytes.value)
    ELSE Err([kind |-> "Asn1Deserialization"])

to_pkcs8(private_key) == [der |-> "PrivateKeyInfo", value |-> private_key]
PrivateKey_from_pkcs8(bytes) ==
    IF bytes.der = "PrivateKeyInfo" THEN Ok(bytes.value)
    ELSE Err([kind |-> "Asn1Deserialization"])
\* bytes of a PEM document that are not the PKCS#8 encoding of a key
NotPkcs8 == [der |-> "OctetString", value |-> "none"]

hex_encode(bytes) == [hex |-> bytes]
\* String::default(): the hex form of no bytes at all
String_default ==
    hex_encode([algo |-> "none",
                input |-> [der |-> "none", key |-> [kind |-> "none", id |-> "none"]],
                len |-> 0])
to_pem(label, data) == [label |-> label, data |-> data]
multihash_encode(data) == [code |-> "sha2-256", digest |-> hash("Sha256", data)]

(***************************************************************************)
(* The backend (BackendStorage): four maps, name to hash, hash to          *)
(* certificate, hash to key and key identifier to hash.  store records the *)
(* four associations at once; a later store under a key of a map replaces  *)
(* the value kept under it.  failing is the set of the operations that     *)
(* report a StorageError for the time being.                               *)
(***************************************************************************)
EmptyMap == [k \in {} |-> k]
MapInsert(map, key, value) ==
    [k \in DOMAIN map \cup {key} |-> IF k = key THEN value ELSE map[k]]

Backend_new ==
    [name |-> EmptyMap, certificates |-> EmptyMap, keys |-> EmptyMap,
     key_identifiers |-> EmptyMap, failing |-> {}]

StorageError == Err([kind |-> "StorageError"])

Backend_store(repos_, name, cert, key, key_identifier) ==
    LET cert_hash == multihash_encode(cert)
    IN IF "store" \in repos_.failing THEN repos_
       ELSE [name |-> MapInsert(repos_.name, name, cert_hash),
             certificates |-> MapInsert(repos_.certificates, cert_hash, cert),
             keys |-> IF key.tag = "Some"
                      THEN MapInsert(repos_.keys, cert_hash, key.v)
                      ELSE repos_.keys,
             key_identifiers |-> MapInsert(repos_.key_identifiers, key_identifier,
                                           cert_hash),
             failing |-> repos_.failing]
\* the value store returns
Backend_store_result(repos_) ==
    IF "store" \in repos_.failing THEN StorageError ELSE Ok(Unit)

Backend_find(repos_, name) ==
    IF "find" \in repos_.failing THEN StorageError
    ELSE IF name \in DOMAIN repos_.name
    THEN Ok(<<[key |-> name, value |-> repos_.name[name]]>>)
    ELSE Ok(<<>>)

Backend_get_cert(repos_, cert_hash) ==
    IF "get_cert" \in repos_.failing THEN StorageError
    ELSE IF cert_hash \in DOMAIN repos_.certificates
    THEN Ok(repos_.certificates[cert_hash])
    ELSE Err([kind |-> "NotFound"])

Backend_get_key(repos_, cert_hash) ==
    IF "get_key" \in repos_.failing THEN StorageError
    ELSE IF cert_hash \in DOMAIN repos_.keys
    THEN Ok(repos_.keys[cert_hash])
    ELSE Err([kind |-> "NotFound"])

Backend_get_hash_from_key_identifier(repos_, key_identifier) ==
    IF "get_hash_from_key_identifier" \in repos_.failing THEN StorageError
    ELSE IF key_identifier \in DOMAIN repos_.key_identifiers
    THEN Ok(repos_.key_identifiers[key_identifier])
    ELSE Err([kind |-> "NotFound"])

Backend_health(repos_) ==
    IF "health" \in repos_.failing THEN StorageError ELSE Ok(Unit)

\* a call of store, as recorded in the list of the calls made
StoreCall(name, cert, key, key_identifier) ==
    [name |-> name, cert |-> cert, key |-> key, key_identifier |-> key_identifier]

(***************************************************************************)
(* The MongoDB backend (MongoRepos): one collection for each of the four   *)
(* maps.  An insert into a collection records the association, or fails    *)
(* and leaves the collection as it was.                                    *)
(***************************************************************************)
MongoRepo_insert(collection, key, value, fails) ==
    IF fails THEN [collection |-> collection, ret |-> Err([kind |-> "InsertError"])]
    ELSE [collection |-> MapInsert(collection, key, value), ret |-> Ok(Unit)]

\* failing: the insert that fails, first to fourth, or 0 when none does
MongoRepos_store(repos_, name, cert, key, key_identifier, failing) ==
    LET cert_hash == multihash_encode(cert)
        names == MongoRepo_insert(repos_.name, name, cert_hash, failing = 1)
        certificates == MongoRepo_insert(repos_.certificates, cert_hash, cert, failing = 2)
        keys == MongoRepo_insert(repos_.keys, cert_hash, key, failing = 3)
        key_identifiers == MongoRepo_insert(repos_.key_identifiers, key_identifier,
                                            cert_hash, failing = 4)
    IN IF names.ret.tag # "Ok" THEN [repos |-> repos_, ret |-> names.ret]
       ELSE IF certificates.ret.tag # "Ok"
       THEN [repos |-> [repos_ EXCEPT !.name = names.collection],
             ret |-> certificates.ret]
       ELSE IF keys.ret.tag # "Ok"
       THEN [repos |-> [repos_ EXCEPT !.name = names.collection,
                                      !.certificates = certificates.collection],
             ret |-> keys.ret]
       ELSE IF key_identifiers.ret.tag # "Ok"
       THEN [repos |-> [repos_ EXCEPT !.name = names.collection,
                                      !.certificates = certificates.collection,
                                      !.keys = keys.collection],
             ret |-> key_identifiers.ret]
       ELSE [repos |-> [repos_ EXCEPT !.name = names.collection,
                                      !.certificates = certificates.collection,
                                      !.keys = keys.collection,
                                      !.key_identifiers = key_identifiers.collection],
             ret |-> Ok(TRUE)]

MongoRepos_find(repos_, name) ==
    IF name \in DOMAIN repos_.name
    THEN Ok(<<[key |-> name, value |-> repos_.name[name]]>>)
    ELSE Ok(<<>>)

MongoRepos_get_cert(repos_, cert_hash) ==
    IF cert_hash \in DOMAIN repos_.certificates
    THEN Ok(repos_.certificates[cert_hash])
    ELSE Err([msg |-> "Error finding cert"])

MongoRepos_get_key(repos_, cert_hash) ==
    IF cert_hash \in DOMAIN repos_.keys
    THEN Ok(repos_.keys[cert_hash])
    ELSE Err([msg |-> "Error finding key"])

\* find_one on the value: the values the call can return
MongoRepos_get_key_identifier_from_hash(repos_, cert_hash) ==
    LET found == {k \in DOMAIN repos_.key_identifiers :
                      repos_.key_identifiers[k] = cert_hash}
    IN IF found = {} THEN {Err([msg |-> "No key identifier found"])}
       ELSE {Ok(k) : k \in found}

MongoRepos_get_hash_from_key_identifier(repos_, key_identifier) ==
    IF key_identifier \in DOMAIN repos_.key_identifiers
    THEN Ok(repos_.key_identifiers[key_identifier])
    ELSE Err([msg |-> "No hash found"])

(***************************************************************************)
(* The issuance controller (Picky): root, intermediate and leaf            *)
(* certificates built with the certificate builder.  The key identifier of *)
(* the issuer is derived from the issuer's key with the controller's       *)
(* default method.                                                         *)
(***************************************************************************)
RootValidity == <<0, MaxTime>>
IntermediateValidity == <<0, MaxTime>>
LeafValidity == <<0, MaxTime>>
ControllerKeyIdGenMethod == SPKFullDER("Sha256")

Picky_generate_root(name, signature_hash_type_, key) ==
    build([CertificateBuilder_new EXCEPT
              !.valid_from = Some(RootValidity[1]),
              !.valid_to = Some(RootValidity[2]),
              !.issuer_infos = Some(IssuerInfos_SelfSigned(name, key)),
              !.signature_hash_type = Some(signature_hash_type_),
              !.ca = Some(TRUE)], 0).ret

Picky_generate_intermediate(issuer_name_, issuer_key, intermediate_name, signature_hash_type_, key) ==
    LET aki == generate_from(ControllerKeyIdGenMethod, to_public_key(issuer_key))
    IN IF aki.tag # "Ok" THEN aki
       ELSE build([CertificateBuilder_new EXCEPT
                      !.valid_from = Some(IntermediateValidity[1]),
                      !.valid_to = Some(IntermediateValidity[2]),
                      !.subject_infos = Some(SubjectInfos_NameAndPublicKey(
                                                 intermediate_name, to_public_key(key))),
                      !.issuer_infos = Some(IssuerInfos_Authority(issuer_name_, issuer_key,
                                                                  aki.v)),
                      !.signature_hash_type = Some(signature_hash_type_),
                      !.ca = Some(TRUE)], 0).ret

Picky_generate_leaf_from_csr(csr, issuer_name_, issuer_key, signature_hash_type_, serial_number) ==
    LET aki == generate_from(ControllerKeyIdGenMethod, to_public_key(issuer_key))
    IN IF aki.tag # "Ok" THEN aki
       ELSE build([CertificateBuilder_new EXCEPT
                      !.valid_from = Some(LeafValidity[1]),
                      !.valid_to = Some(LeafValidity[2]),
                      !.subject_infos = Some(SubjectInfos_Csr(csr)),
                      !.issuer_infos = Some(IssuerInfos_Authority(issuer_name_, issuer_key,
                                                                  aki.v)),
                      !.signature_hash_type = Some(signature_hash_type_)],
                  serial_number).ret

(***************************************************************************)
(* The server's configuration (ServerConfig).  An empty string of the      *)
(* configuration is None.                                                  *)
(***************************************************************************)
DEFAULT_PICKY_REALM == "Picky"

ServerConfig_default ==
    [realm |-> DEFAULT_PICKY_REALM, key_config |-> "RsaSha256",
     root_cert |-> None, root_key |-> None,
     intermediate_cert |-> None, intermediate_key |-> None,
     save_certificate |-> FALSE]

RootName(config_) == config_.realm \o " Root CA"
IntermediateName(config_) == config_.realm \o " Authority"

\* the value of a controller function: the backend it leaves, the value it
\* returns and the calls of store it made
Returns(repos_, value, store_calls) ==
    [repos |-> repos_, ret |-> value, stores |-> store_calls]
Message(text) == Err([msg |-> text])

(***************************************************************************)
(* sign_certificate                                                        *)
(***************************************************************************)
sign_certificate_always_store(ca_name, csr, config_, repos_, serial_number) ==
    LET ca_hashes == Backend_find(repos_, ca_name) IN
    IF ca_hashes.tag # "Ok" THEN Returns(repos_, Message("couldn't fetch CA"), <<>>)
    ELSE IF Len(ca_hashes.v) = 0 THEN Returns(repos_, Message("ca hash empty"), <<>>)
    ELSE
    LET ca_hash == ca_hashes.v[1].value
        ca_cert_der == Backend_get_cert(repos_, ca_hash)
    IN
    IF ca_cert_der.tag # "Ok"
    THEN Returns(repos_, Message("couldn't get CA cert der"), <<>>)
    ELSE
    LET ca_cert == Cert_from_der(ca_cert_der.v) IN
    IF ca_cert.tag # "Ok"
    THEN Returns(repos_, Message("couldn't deserialize CA cert"), <<>>)
    ELSE
    LET ca_pk_der == Backend_get_key(repos_, ca_hash) IN
    IF ca_pk_der.tag # "Ok"
    THEN Returns(repos_, Message("couldn't fetch CA private key"), <<>>)
    ELSE
    LET ca_pk == PrivateKey_from_pkcs8(ca_pk_der.v) IN
    IF ca_pk.tag # "Ok"
    THEN Returns(repos_, Message("couldn't build private key from pkcs8"), <<>>)
    ELSE
    LET signed_cert == Picky_generate_leaf_from_csr(csr, subject_name(ca_cert.v), ca_pk.v,
                                                    config_.key_config, serial_number)
    IN
    IF signed_cert.tag # "Ok"
    THEN Returns(repos_, Message("couldn't generate leaf certificate"), <<>>)
    ELSE
    LET name == Display(subject_name(signed_cert.v))
        ski == subject_key_identifier(signed_cert.v)
    IN IF ski.tag # "Ok" THEN Returns(repos_, Message("couldn't get SKI"), <<>>)
       ELSE IF Backend_store_result(repos_).tag # "Ok"
       THEN Returns(repos_, Message("Insertion error for leaf"), <<>>)
       ELSE Returns(Backend_store(repos_, name, Cert_to_der(signed_cert.v), None,
                                  hex_encode(ski.v)),
                    Ok(signed_cert.v),
                    <<StoreCall(name, Cert_to_der(signed_cert.v), None,
                                hex_encode(ski.v))>>)

sign_certificate(ca_name, csr, config_, repos_, serial_number) ==
    LET ca_hashes == Backend_find(repos_, ca_name) IN
    IF ca_hashes.tag # "Ok" THEN Returns(repos_, Message("couldn't fetch CA"), <<>>)
    ELSE IF Len(ca_hashes.v) = 0 THEN Returns(repos_, Message("ca hash empty"), <<>>)
    ELSE
    LET ca_hash == ca_hashes.v[1].value
        ca_cert_der == Backend_get_cert(repos_, ca_hash)
    IN
    IF ca_cert_der.tag # "Ok"
    THEN Returns(repos_, Message("couldn't get CA cert der"), <<>>)
    ELSE
    LET ca_cert == Cert_from_der(ca_cert_der.v) IN
    IF ca_cert.tag # "Ok"
    THEN Returns(repos_, Message("couldn't deserialize CA cert"), <<>>)
    ELSE
    LET ca_pk_der == Backend_get_key(repos_, ca_hash) IN
    IF ca_pk_der.tag # "Ok"
    THEN Returns(repos_, Message("couldn't fetch CA private key"), <<>>)
    ELSE
    LET ca_pk == PrivateKey_from_pkcs8(ca_pk_der.v) IN
    IF ca_pk.tag # "Ok"
    THEN Returns(repos_, Message("couldn't build private key from pkcs8"), <<>>)
    ELSE
    LET signed_cert == Picky_generate_leaf_from_csr(csr, subject_name(ca_cert.v), ca_pk.v,
                                                    config_.key_config, serial_number)
    IN
    IF signed_cert.tag # "Ok"
    THEN Returns(repos_, Message("couldn't generate leaf certificate"), <<>>)
    ELSE
    IF config_.save_certificate
    THEN LET name == Display(subject_name(signed_cert.v))
             ski == subject_key_identifier(signed_cert.v)
         IN IF ski.tag # "Ok" THEN Returns(repos_, Message("couldn't get SKI"), <<>>)
            ELSE IF Backend_store_result(repos_).tag # "Ok"
            THEN Returns(repos_, Message("Insertion error for leaf"), <<>>)
            ELSE Returns(Backend_store(repos_, name, Cert_to_der(signed_cert.v), None,
                                       hex_encode(ski.v)),
                         Ok(signed_cert.v),
                         <<StoreCall(name, Cert_to_der(signed_cert.v), None,
                                     hex_encode(ski.v))>>)
    ELSE Returns(repos_, Ok(signed_cert.v), <<>>)

(***************************************************************************)
(* generate_root_ca and generate_intermediate                              *)
(***************************************************************************)
generate_root_ca_no_find(config_, repos_, pk) ==
    LET name == RootName(config_)
        root == Picky_generate_root(name, config_.key_config, pk)
    IN
    IF root.tag # "Ok"
    THEN Returns(repos_, Message("couldn't generate root certificate"), <<>>)
    ELSE
    LET ski == subject_key_identifier(root.v) IN
    IF ski.tag # "Ok"
    THEN Returns(repos_, Message("couldn't fetch subject key identifier"), <<>>)
    ELSE IF Backend_store_result(repos_).tag # "Ok"
    THEN Returns(repos_, Message("couldn't store generated root certificate"), <<>>)
    ELSE Returns(Backend_store(repos_, name, Cert_to_der(root.v), Some(to_pkcs8(pk)),
                               hex_encode(ski.v)),
                 Ok(TRUE),
                 <<StoreCall(name, Cert_to_der(root.v), Some(to_pkcs8(pk)),
                             hex_encode(ski.v))>>)

generate_root_ca(config_, repos_, pk) ==
    LET name == RootName(config_)
        certs == Backend_find(repos_, name)
    IN
    IF certs.tag = "Ok" /\ Len(certs.v) # 0
    THEN Returns(repos_, Ok(FALSE), <<>>)
    ELSE
    LET root == Picky_generate_root(name, config_.key_config, pk) IN
    IF root.tag # "Ok"
    THEN Returns(repos_, Message("couldn't generate root certificate"), <<>>)
    ELSE
    LET ski == subject_key_identifier(root.v) IN
    IF ski.tag # "Ok"
    THEN Returns(repos_, Message("couldn't fetch subject key identifier"), <<>>)
    ELSE IF Backend_store_result(repos_).tag # "Ok"
    THEN Returns(repos_, Message("couldn't store generated root certificate"), <<>>)
    ELSE Returns(Backend_store(repos_, name, Cert_to_der(root.v), Some(to_pkcs8(pk)),
                               hex_encode(ski.v)),
                 Ok(TRUE),
                 <<StoreCall(name, Cert_to_der(root.v), Some(to_pkcs8(pk)),
                             hex_encode(ski.v))>>)

generate_intermediate(config_, repos_, pk) ==
    LET root_name == RootName(config_)
        intermediate_name == IntermediateName(config_)
        certs == Backend_find(repos_, intermediate_name)
    IN
    IF certs.tag = "Ok" /\ Len(certs.v) # 0
    THEN Returns(repos_, Ok(FALSE), <<>>)
    ELSE
    LET roots == Backend_find(repos_, root_name) IN
    IF roots.tag # "Ok" THEN Returns(repos_, Message("error while fetching root"), <<>>)
    ELSE IF Len(roots.v) = 0 THEN Returns(repos_, Message("no matching root CA"), <<>>)
    ELSE
    LET root_cert_der == Backend_get_cert(repos_, roots.v[1].value)
        root_key_der == Backend_get_key(repos_, roots.v[1].value)
    IN
    IF root_cert_der.tag # "Ok"
    THEN Returns(repos_, Message("couldn't fetch root CA"), <<>>)
    ELSE IF root_key_der.tag # "Ok"
    THEN Returns(repos_, Message("couldn't fetch root CA private key"), <<>>)
    ELSE
    LET root_cert == Cert_from_der(root_cert_der.v)
        root_key == PrivateKey_from_pkcs8(root_key_der.v)
    IN
    IF root_cert.tag # "Ok"
    THEN Returns(repos_, Message("couldn't parse root cert from der"), <<>>)
    ELSE IF root_key.tag # "Ok"
    THEN Returns(repos_, Message("couldn't parse private key from pkcs8"), <<>>)
    ELSE
    LET intermediate_cert == Picky_generate_intermediate(subject_name(root_cert.v),
                                                         root_key.v, intermediate_name,
                                                         config_.key_config, pk)
    IN
    IF intermediate_cert.tag # "Ok"
    THEN Returns(repos_, Message("couldn't generate intermediate certificate"), <<>>)
    ELSE
    LET ski == subject_key_identifier(intermediate_cert.v) IN
    IF ski.tag # "Ok" THEN Returns(repos_, Message("couldn't fetch key id"), <<>>)
    ELSE IF Backend_store_result(repos_).tag # "Ok"
    THEN Returns(repos_, Message("couldn't store generated intermediate certificate"), <<>>)
    ELSE Returns(Backend_store(repos_, intermediate_name,
                               Cert_to_der(intermediate_cert.v), Some(to_pkcs8(pk)),
                               hex_encode(ski.v)),
                 Ok(TRUE),
                 <<StoreCall(intermediate_name, Cert_to_der(intermediate_cert.v),
                             Some(to_pkcs8(pk)), hex_encode(ski.v))>>)

(***************************************************************************)
(* generate_root_ca and generate_intermediate between their backend calls: *)
(* the lookup that decides whether the CA exists, the reads of the root,   *)
(* and the generation that ends with the store.                            *)
(***************************************************************************)
generate_root_ca_exists(config_, repos_) ==
    LET certs == Backend_find(repos_, RootName(config_)) IN
    certs.tag = "Ok" /\ Len(certs.v) # 0

generate_root_ca_create(config_, repos_, pk) ==
    LET name == RootName(config_)
        root == Picky_generate_root(name, config_.key_config, pk)
    IN
    IF root.tag # "Ok"
    THEN Returns(repos_, Message("couldn't generate root certificate"), <<>>)
    ELSE
    LET ski == subject_key_identifier(root.v) IN
    IF ski.tag # "Ok"
    THEN Returns(repos_, Message("couldn't fetch subject key identifier"), <<>>)
    ELSE IF Backend_store_result(repos_).tag # "Ok"
    THEN Returns(repos_, Message("couldn't store generated root certificate"), <<>>)
    ELSE Returns(Backend_store(repos_, name, Cert_to_der(root.v), Some(to_pkcs8(pk)),
                               hex_encode(ski.v)),
                 Ok(TRUE),
                 <<StoreCall(name, Cert_to_der(root.v), Some(to_pkcs8(pk)),
                             hex_encode(ski.v))>>)

generate_intermediate_exists(config_, repos_) ==
    LET certs == Backend_find(repos_, IntermediateName(config_)) IN
    certs.tag = "Ok" /\ Len(certs.v) # 0

\* the find of the root: the hash of the first entry
generate_intermediate_find_root(config_, repos_) ==
    LET roots == Backend_find(repos_, RootName(config_)) IN
    IF roots.tag # "Ok" THEN Message("error while fetching root")
    ELSE IF Len(roots.v) = 0 THEN Message("no matching root CA")
    ELSE Ok(roots.v[1].value)

\* get_cert and get_key of that hash
generate_intermediate_get_root(repos_, root_hash) ==
    LET root_cert_der == Backend_get_cert(repos_, root_hash)
        root_key_der == Backend_get_key(repos_, root_hash)
    IN
    IF root_cert_der.tag # "Ok" THEN Message("couldn't fetch root CA")
    ELSE IF root_key_der.tag # "Ok" THEN Message("couldn't fetch root CA private key")
    ELSE Ok([root_cert |-> root_cert_der.v, root_key |-> root_key_der.v])

generate_intermediate_create(config_, repos_, root_cert_der, root_key_der, pk) ==
    LET intermediate_name == IntermediateName(config_)
        root_cert == Cert_from_der(root_cert_der)
        root_key == PrivateKey_from_pkcs8(root_key_der)
    IN
    IF root_cert.tag # "Ok"
    THEN Returns(repos_, Message("couldn't parse root cert from der"), <<>>)
    ELSE IF root_key.tag # "Ok"
    THEN Returns(repos_, Message("couldn't parse private key from pkcs8"), <<>>)
    ELSE
    LET intermediate_cert == Picky_generate_intermediate(subject_name(root_cert.v),
                                                         root_key.v, intermediate_name,
                                                         config_.key_config, pk)
    IN
    IF intermediate_cert.tag # "Ok"
    THEN Returns(repos_, Message("couldn't generate intermediate certificate"), <<>>)
    ELSE
    LET ski == subject_key_identifier(intermediate_cert.v) IN
    IF ski.tag # "Ok" THEN Returns(repos_, Message("couldn't fetch key id"), <<>>)
    ELSE IF Backend_store_result(repos_).tag # "Ok"
    THEN Returns(repos_, Message("couldn't store generated intermediate certificate"), <<>>)
    ELSE Returns(Backend_store(repos_, intermediate_name,
                               Cert_to_der(intermediate_cert.v), Some(to_pkcs8(pk)),
                               hex_encode(ski.v)),
                 Ok(TRUE),
                 <<StoreCall(intermediate_name, Cert_to_der(intermediate_cert.v),
                             Some(to_pkcs8(pk)), hex_encode(ski.v))>>)

(***************************************************************************)
(* check_certs_in_env and get_and_store_env_cert_info.  A PEM string of    *)
(* the configuration parses to its label and data, or not at all.          *)
(***************************************************************************)
NotPem == [label |-> "none", data |-> NotPkcs8]
Pem_parse(text) ==
    IF text.label = "none" THEN Err([kind |-> "Pem"]) ELSE Ok(text)

get_and_store_env_cert_info(cert_pem_text, key_pem_text, repos_) ==
    LET cert_pem == Pem_parse(cert_pem_text) IN
    IF cert_pem.tag # "Ok" THEN Returns(repos_, Message("couldn't parse cert pem"), <<>>)
    ELSE
    LET cert == Cert_from_der(cert_pem.v.data) IN
    IF cert.tag # "Ok" THEN Returns(repos_, Message("couldn't parse cert from der"), <<>>)
    ELSE
    LET ski == subject_key_identifier(cert.v) IN
    IF ski.tag # "Ok"
    THEN Returns(repos_, Message("couldn't parse fetch subject key identifier"), <<>>)
    ELSE
    LET name == Display(subject_name(cert.v))
        key_pem == Pem_parse(key_pem_text)
    IN
    IF key_pem.tag # "Ok" THEN Returns(repos_, Message("couldn't parse key pem"), <<>>)
    ELSE IF Backend_store_result(repos_).tag # "Ok"
    THEN Returns(repos_, Backend_store_result(repos_), <<>>)
    ELSE Returns(Backend_store(repos_, name, cert_pem.v.data, Some(key_pem.v.data),
                               hex_encode(ski.v)),
                 Ok(Unit),
                 <<StoreCall(name, cert_pem.v.data, Some(key_pem.v.data),
                             hex_encode(ski.v))>>)

check_certs_in_env(config_, repos_) ==
    LET first ==
            IF config_.root_cert.tag = "Some" /\ config_.root_key.tag = "Some"
            THEN get_and_store_env_cert_info(config_.root_cert.v, config_.root_key.v, repos_)
            ELSE Returns(repos_, Ok(Unit), <<>>)
    IN IF first.ret.tag # "Ok" THEN first
       ELSE IF /\ config_.intermediate_cert.tag = "Some"
               /\ config_.intermediate_key.tag = "Some"
            THEN LET second == get_and_store_env_cert_info(config_.intermediate_cert.v,
                                                           config_.intermediate_key.v,
                                                           first.repos)
                 IN Returns(second.repos, second.ret, first.stores \o second.stores)
            ELSE first

(***************************************************************************)
(* find_ca_chain as a function of the backend: the chain it returns, the   *)
(* error it returns, or NoReturn when its loop does not end.  A turn of    *)
(* the loop that looks a key identifier up leaves cert_der and             *)
(* current_key_id determined by that identifier, so a walk of more         *)
(* lookups than the backend has key identifiers repeats for ever.          *)
(***************************************************************************)
NoReturn == [tag |-> "NoReturn"]

RECURSIVE find_ca_chain_loop(_, _, _, _, _)
find_ca_chain_loop(repos_, cert_der_, chain_, current_key_id_, turns) ==
    LET cert == Cert_from_der(cert_der_) IN
    IF cert.tag # "Ok" THEN Message("couldn't deserialize certificate")
    ELSE
    LET aki == authority_key_identifier(cert.v) IN
    IF aki.tag # "Ok" THEN Message("couldn't fetch authority key identifier")
    ELSE
    LET parent_key_id == hex_encode(aki.v) IN
    IF current_key_id_ = parent_key_id THEN Ok(chain_)
    ELSE
    LET cert_hash == Backend_get_hash_from_key_identifier(repos_, parent_key_id) IN
    IF cert_hash.tag # "Ok" THEN Message("couldn't fetch hash")
    ELSE
    LET next_der == Backend_get_cert(repos_, cert_hash.v) IN
    IF next_der.tag # "Ok" THEN Message("couldn't fetch certificate der")
    ELSE IF turns > Cardinality(DOMAIN repos_.key_identifiers) THEN NoReturn
    ELSE find_ca_chain_loop(repos_, next_der.v,
                            Append(chain_, to_pem("CERTIFICATE", next_der.v)),
                            parent_key_id, turns + 1)

find_ca_chain(repos_, ca_name) ==
    LET ca_hash == Backend_find(repos_, ca_name) IN
    IF ca_hash.tag # "Ok" THEN Message("couldn't fetch CA hash id")
    ELSE IF Len(ca_hash.v) = 0 THEN Message("No intermediate certificate found!")
    ELSE
    LET first_der == Backend_get_cert(repos_, ca_hash.v[1].value) IN
    IF first_der.tag # "Ok" THEN Message("couldn't fetch CA certificate der")
    ELSE find_ca_chain_loop(repos_, first_der.v, <<to_pem("CERTIFICATE", first_der.v)>>,
                            String_default, 1)

(***************************************************************************)
(* Requests and responses of the HTTP handlers.  A body is PEM text, DER   *)
(* bytes, a JSON document or none of these; a response is the status and   *)
(* the body set on it.                                                     *)
(***************************************************************************)
StatusCode_OK == 200
StatusCode_BAD_REQUEST == 400
StatusCode_SERVICE_UNAVAILABLE == 503

Body(kind, content) == [kind |-> kind, content |-> content]
NoBody == [kind |-> "none", content |-> NotPkcs8]
parse_pem(body) ==
    IF body.kind = "pem" THEN Pem_parse(body.content) ELSE Err([kind |-> "Pem"])
serde_json_from_slice(body) ==
    IF body.kind = "json" THEN Ok(body.content) ELSE Err([kind |-> "Json"])
Body_from_der(body) == IF body.kind = "der" THEN body.content ELSE NotPkcs8

Csr_to_der(csr) == [der |-> "CertificationRequest", value |-> csr]
Csr_from_der(bytes) ==
    IF bytes.der = "CertificationRequest" THEN Ok(bytes.value)
    ELSE Err([kind |-> "Asn1Deserialization"])

Request(content_type, content_transfer_encoding, body) ==
    [content_type |-> content_type,
     content_transfer_encoding |-> content_transfer_encoding,
     body |-> body]

\* what a handler leaves: the backend, the calls of store it made, the
\* status and the body of the response
Answers(repos_, store_calls, status, body) ==
    [repos |-> repos_, stores |-> store_calls, status |-> status, body |-> body]

(***************************************************************************)
(* health                                                                  *)
(***************************************************************************)
health(repos_) ==
    IF Backend_health(repos_).tag = "Ok"
    THEN Answers(repos_, <<>>, StatusCode_OK, Body("text", "Everything should be alright!"))
    ELSE Answers(repos_, <<>>, StatusCode_SERVICE_UNAVAILABLE, NoBody)

(***************************************************************************)
(* post_cert                                                               *)
(***************************************************************************)
\* the certificate of the request, by Content-Type and
\* Content-Transfer-Encoding
post_cert_body(req) ==
    IF req.content_type.tag # "Some" THEN Message("Content-Type is required")
    ELSE IF req.content_type.v = "application/pkcs10"
    THEN IF req.content_transfer_encoding.tag # "Some"
         THEN Message("Content-Transfer-Encoding is required")
         ELSE IF req.content_transfer_encoding.v = "base64"
         THEN LET pem == parse_pem(req.body) IN
              IF pem.tag # "Ok" THEN Message("(base64) couldn't parse pem")
              ELSE Cert_from_der(pem.v.data)
         ELSE IF req.content_transfer_encoding.v = "binary"
         THEN Cert_from_der(Body_from_der(req.body))
         ELSE Message("Unsupported Content-Transfer-Encoding")
    ELSE IF req.content_type.v = "application/json"
    THEN LET json == serde_json_from_slice(req.body) IN
         IF json.tag # "Ok" THEN Message("(json) couldn't parse json")
         ELSE LET pem == Pem_parse(json.v.certificate) IN
              IF pem.tag # "Ok" THEN Message("(json) couldn't parse pem")
              ELSE Cert_from_der(pem.v.data)
    ELSE Message("Unsupported Content-Type")

post_cert_ok_after_failed_store(config_, repos_, req) ==
    LET cert == post_cert_body(req) IN
    IF cert.tag # "Ok" THEN Answers(repos_, <<>>, StatusCode_BAD_REQUEST, NoBody)
    ELSE
    LET ski == subject_key_identifier(cert.v) IN
    IF ski.tag # "Ok" THEN Answers(repos_, <<>>, StatusCode_BAD_REQUEST, NoBody)
    ELSE IF Display(issuer_name(cert.v)) # "CN=" \o config_.realm \o " Authority"
    THEN Answers(repos_, <<>>, StatusCode_BAD_REQUEST, NoBody)
    ELSE
    LET der == Cert_to_der(cert.v)
        name == Display(subject_name(cert.v))
    IN IF Backend_store_result(repos_).tag # "Ok"
       THEN Answers(repos_, <<>>, StatusCode_OK, NoBody)
       ELSE Answers(Backend_store(repos_, name, der, None, hex_encode(ski.v)),
                    <<StoreCall(name, der, None, hex_encode(ski.v))>>,
                    StatusCode_OK, NoBody)

post_cert(config_, repos_, req) ==
    LET cert == post_cert_body(req) IN
    IF cert.tag # "Ok" THEN Answers(repos_, <<>>, StatusCode_BAD_REQUEST, NoBody)
    ELSE
    LET ski == subject_key_identifier(cert.v) IN
    IF ski.tag # "Ok" THEN Answers(repos_, <<>>, StatusCode_BAD_REQUEST, NoBody)
    ELSE IF Display(issuer_name(cert.v)) # "CN=" \o config_.realm \o " Authority"
    THEN Answers(repos_, <<>>, StatusCode_BAD_REQUEST, NoBody)
    ELSE
    LET der == Cert_to_der(cert.v)
        name == Display(subject_name(cert.v))
    IN IF Backend_store_result(repos_).tag # "Ok"
       THEN Answers(repos_, <<>>, StatusCode_BAD_REQUEST, NoBody)
       ELSE Answers(Backend_store(repos_, name, der, None, hex_encode(ski.v)),
                    <<StoreCall(name, der, None, hex_encode(ski.v))>>,
                    StatusCode_OK, NoBody)

(***************************************************************************)
(* sign_cert                                                               *)
(***************************************************************************)
\* the request of the request body and the CA name it selects, by
\* Content-Type and Content-Transfer-Encoding
sign_cert_body(config_, req) ==
    LET ca_name == IntermediateName(config_) IN
    IF req.content_type.tag # "Some" THEN Message("Content-Type is required")
    ELSE IF req.content_type.v = "application/pkcs10"
    THEN IF req.content_transfer_encoding.tag # "Some"
         THEN Message("Content-Transfer-Encoding is required")
         ELSE IF req.content_transfer_encoding.v = "base64"
         THEN LET pem == parse_pem(req.body) IN
              IF pem.tag # "Ok" THEN Message("(base64) couldn't parse pem")
              ELSE LET csr == Csr_from_der(pem.v.data) IN
                   IF csr.tag # "Ok" THEN csr
                   ELSE Ok([ca_name |-> ca_name, csr |-> csr.v])
         ELSE IF req.content_transfer_encoding.v = "binary"
         THEN LET csr == Csr_from_der(Body_from_der(req.body)) IN
              IF csr.tag # "Ok" THEN csr
              ELSE Ok([ca_name |-> ca_name, csr |-> csr.v])
         ELSE Message("Unsupported Content-Transfer-Encoding")
    ELSE IF req.content_type.v = "application/json"
    THEN LET json == serde_json_from_slice(req.body) IN
         IF json.tag # "Ok" THEN Message("(json) couldn't parse json")
         ELSE LET pem == Pem_parse(json.v.csr) IN
              IF pem.tag # "Ok" THEN Message("(json) couldn't parse pem")
              ELSE LET csr == Csr_from_der(pem.v.data) IN
                   IF csr.tag # "Ok" THEN csr
                   ELSE Ok([ca_name |-> option_unwrap_or(json.v.ca, ca_name),
                            csr |-> csr.v])
    ELSE Message("Unsupported Content-Type")

sign_cert(config_, repos_, req, serial_number) ==
    LET parsed == sign_cert_body(config_, req) IN
    IF parsed.tag # "Ok" THEN Answers(repos_, <<>>, StatusCode_BAD_REQUEST, NoBody)
    ELSE
    CHOOSE answers \in
        {IF signed.ret.tag # "Ok"
         THEN Answers(signed.repos, signed.stores, StatusCode_BAD_REQUEST, NoBody)
         ELSE Answers(signed.repos, signed.stores, StatusCode_OK,
                      Body("pem", to_pem("CERTIFICATE", Cert_to_der(signed.ret.v)))) :
             signed \in {sign_certificate(parsed.v.ca_name, parsed.v.csr, config_, repos_,
                                          serial_number)}} : TRUE

(***************************************************************************)
(* chain_default and chain.  ca is the name decoded from the path, when    *)
(* the path has one that decodes.                                          *)
(***************************************************************************)
chain_answer(repos_, found) ==
    IF found.tag # "Ok" THEN Answers(repos_, <<>>, StatusCode_BAD_REQUEST, NoBody)
    ELSE Answers(repos_, <<>>, StatusCode_OK, Body("pems", found.v))

\* found is the value of find_ca_chain for the Authority's name
chain_default(repos_, found) == chain_answer(repos_, found)

\* found is the value of find_ca_chain for the name of the path
chain_by_name(repos_, ca_capture, found) ==
    IF ca_capture.tag # "Some" THEN Answers(repos_, <<>>, StatusCode_BAD_REQUEST, NoBody)
    ELSE chain_answer(repos_, found)

(***************************************************************************)
(* cert: the certificate of a multihash, or of a bare SHA-256 digest that  *)
(* sha256_to_multihash completes.                                          *)
(***************************************************************************)
sha256_to_multihash(text) ==
    IF text.code = "none" /\ text.digest.algo = "Sha256"
    THEN Ok([text EXCEPT !.code = "sha2-256"])
    ELSE Err([kind |-> "Multihash"])

set_content_type_body(repos_, accept_encoding, ca_cert) ==
    Answers(repos_, <<>>, StatusCode_OK,
            IF accept_encoding = Some("binary") THEN Body("der", ca_cert)
            ELSE IF accept_encoding = Some("base64") THEN Body("base64", ca_cert)
            ELSE Body("pem", to_pem("CERTIFICATE", ca_cert)))

cert_by_multihash(repos_, multihash_capture, accept_encoding) ==
    IF multihash_capture.tag # "Some"
    THEN Answers(repos_, <<>>, StatusCode_BAD_REQUEST, NoBody)
    ELSE
    LET ca_cert == Backend_get_cert(repos_, multihash_capture.v) IN
    IF ca_cert.tag = "Ok" THEN set_content_type_body(repos_, accept_encoding, ca_cert.v)
    ELSE
    LET multihash == sha256_to_multihash(multihash_capture.v) IN
    IF multihash.tag # "Ok" THEN Answers(repos_, <<>>, StatusCode_BAD_REQUEST, NoBody)
    ELSE LET again == Backend_get_cert(repos_, multihash.v) IN
         IF again.tag = "Ok" THEN set_content_type_body(repos_, accept_encoding, again.v)
         ELSE Answers(repos_, <<>>, StatusCode_BAD_REQUEST, NoBody)

(***************************************************************************)
(* cert_old: the same lookup, with the format taken from the path.         *)
(***************************************************************************)
CertFormat_from(format) == IF format = "der" THEN "Der" ELSE "Pem"

cert_old_body(format, ca_cert) ==
    IF CertFormat_from(format) = "Der" THEN Body("der", ca_cert)
    ELSE Body("pem", to_pem("CERTIFICATE", ca_cert))

cert_old(repos_, multihash_capture, format_capture) ==
    IF multihash_capture.tag # "Some" \/ format_capture.tag # "Some"
    THEN Answers(repos_, <<>>, StatusCode_BAD_REQUEST, NoBody)
    ELSE
    LET ca_cert == Backend_get_cert(repos_, multihash_capture.v) IN
    IF ca_cert.tag = "Ok"
    THEN Answers(repos_, <<>>, StatusCode_OK, cert_old_body(format_capture.v, ca_cert.v))
    ELSE
    LET multihash == sha256_to_multihash(multihash_capture.v) IN
    IF multihash.tag # "Ok" THEN Answers(repos_, <<>>, StatusCode_BAD_REQUEST, NoBody)
    ELSE LET again == Backend_get_cert(repos_, multihash.v) IN
         IF again.tag = "Ok"
         THEN Answers(repos_, <<>>, StatusCode_OK,
                      cert_old_body(format_capture.v, again.v))
         ELSE Answers(repos_, <<>>, StatusCode_BAD_REQUEST, NoBody)

(***************************************************************************)
(* request_name                                                            *)
(***************************************************************************)
request_name(repos_, req) ==
    LET json == serde_json_from_slice(req.body) IN
    IF json.tag # "Ok" THEN Answers(repos_, <<>>, StatusCode_BAD_REQUEST, NoBody)
    ELSE
    LET csr_pem == Pem_parse(json.v.csr) IN
    IF csr_pem.tag # "Ok" THEN Answers(repos_, <<>>, StatusCode_BAD_REQUEST, NoBody)
    ELSE
    LET csr == Csr_from_der(csr_pem.v.data) IN
    IF csr.tag # "Ok" THEN Answers(repos_, <<>>, StatusCode_BAD_REQUEST, NoBody)
    ELSE Answers(repos_, <<>>, StatusCode_OK,
                 Body("text", csr.v.certification_request_info.subject))

(***************************************************************************)
(* State.                                                                  *)
(***************************************************************************)
VARIABLES
    pc,                 \* position of the verify_chain call: idle, loop, done
    now,                \* the clock value given to the call
    current_cert,       \* verify_chain: current_cert
    parent_cert,        \* verify_chain: the last item taken from the chain
    number_certs,       \* verify_chain: index of the next chain item
    root_ca_not_found,  \* verify_chain: root_ca_not_found
    walked,             \* key ids and validity of the certificates accepted so far
    result,             \* value returned by the call
    inner,              \* CertificateBuilder: the inner record
    ret,                \* CertificateBuilder: value returned by the latest call
    call,               \* the latest call of a stateless function, with its arguments
    returned,           \* the value that call returned
    reader,             \* Deserializer: the reader's position and the input's length
    sequence,           \* Sequence: len, and the len it was created with
    element,            \* Sequence: value returned by the latest next_element_seed
    server_pc,          \* server: start, ready, or inside the loop of find_ca_chain
    config,             \* server: the ServerConfig read at start
    repos,              \* server: the backend's four maps
    stores,             \* server: the calls of repos.store that returned Ok, in order
    response,           \* server: the latest call of a controller function and its value
    cert_der,           \* find_ca_chain: cert_der
    chain,              \* find_ca_chain: chain
    current_key_id,     \* find_ca_chain: current_key_id
    lookups,            \* find_ca_chain: the key identifiers looked up by the call
    invocations         \* bootstrap: position and locals of each concurrent invocation

chainVars == <<pc, now, current_cert, parent_cert, number_certs,
               root_ca_not_found, walked, result>>
builderVars == <<inner, ret>>
callVars == <<call, returned>>
sequenceVars == <<reader, sequence, element>>
serverVars == <<server_pc, config, repos, stores, response,
                cert_der, chain, current_key_id, lookups>>
bootstrapVars == <<invocations>>
vars == <<chainVars, builderVars, callVars, sequenceVars, serverVars, bootstrapVars>>
exceptChainVars == <<builderVars, callVars, sequenceVars, serverVars, bootstrapVars>>
exceptBuilderVars == <<chainVars, callVars, sequenceVars, serverVars, bootstrapVars>>
exceptCallVars == <<chainVars, builderVars, sequenceVars, serverVars, bootstrapVars>>
exceptSequenceVars == <<chainVars, builderVars, callVars, serverVars, bootstrapVars>>
exceptServerVars == <<chainVars, builderVars, callVars, sequenceVars, bootstrapVars>>
exceptBootstrapVars == <<chainVars, builderVars, callVars, sequenceVars>>

NoResult == [tag |-> "NoResult"]

Walked(cert) ==
    [ski |-> subject_key_identifier(cert),
     aki |-> authority_key_identifier(cert),
     not_before |-> cert.tbs_certificate.validity.not_before,
     not_after |-> cert.tbs_certificate.validity.not_after]

Self == [tag |-> "Self"]

InitChainVars ==
    /\ pc = "idle"
    /\ now = 0
    /\ current_cert = NoCert
    /\ parent_cert = NoCert
    /\ number_certs = 0
    /\ root_ca_not_found = TRUE
    /\ walked = <<>>
    /\ result = NoResult

InitBuilderVars ==
    /\ inner = CertificateBuilder_new
    /\ ret = Self

NoCall == [fn |-> "none"]

InitCallVars ==
    /\ call = NoCall
    /\ returned = NoResult

NoSequence == [tag |-> "NoSequence"]

InitSequenceVars ==
    /\ reader = [pos |-> 0, input_len |-> 0]
    /\ sequence = NoSequence
    /\ element = NoResult

InitServerVars ==
    /\ server_pc = "start"
    /\ config = ServerConfig_default
    /\ repos = Backend_new
    /\ stores = <<>>
    /\ response = NoCall
    /\ cert_der = NoResult
    /\ chain = <<>>
    /\ current_key_id = String_default
    /\ lookups = <<>>

\* The invocations of the bootstrap that run at the same time, each at its
\* first backend call.
Invocations == {1, 2}
Invocation(position, held) == [pc |-> position, held |-> held]
InitBootstrapVars ==
    invocations = [p \in Invocations |-> Invocation("generate_root_ca", NoResult)]

Init ==
    /\ InitChainVars
    /\ InitBuilderVars
    /\ InitCallVars
    /\ InitSequenceVars
    /\ InitServerVars
    /\ InitBootstrapVars

\* Cert::verify(now) on a certificate taken alone.
CertVerify ==
    /\ pc = "idle"
    /\ \E not_before \in Times, not_after \in Times, t \in Times :
         LET cert == ParsedCert("Leaf", <<not_before, not_after>>, to_public_key("rsa1"),
                                None, None, None,
                                <<AlgorithmIdentifierFrom("RsaSha256"), "RsaSha256", "rsa1">>)
         IN /\ now' = t
            /\ current_cert' = cert
            /\ result' = Cert_verify(cert, t)
    /\ pc' = "verified"
    /\ UNCHANGED <<parent_cert, number_certs, root_ca_not_found, walked>>
    /\ UNCHANGED exceptChainVars

\* verify_chain, up to the loop: the leaf's own validity.
VerifyChainCall ==
    /\ pc = "idle"
    /\ \E leaf \in LeafUniverse, t \in Times :
         LET validity == InvalidCertificate(Cert_verify(leaf, t),
                                            Display(subject_name(leaf)))
         IN /\ now' = t
            /\ current_cert' = leaf
            /\ root_ca_not_found' = TRUE
            /\ number_certs' = 0
            /\ IF validity.tag = "Err"
               THEN /\ pc' = "done"
                    /\ result' = validity
                    /\ walked' = <<>>
               ELSE /\ pc' = "loop"
                    /\ result' = NoResult
                    /\ walked' = <<Walked(leaf)>>
    /\ UNCHANGED parent_cert
    /\ UNCHANGED exceptChainVars

\* verify_chain, one turn of the loop: the iterator yields a parent.
VerifyChainNext ==
    /\ pc = "loop"
    /\ number_certs < MaxChain
    /\ \E parent \in CertUniverse :
         LET outcome == verify_chain_body(current_cert, parent, number_certs, now)
         IN /\ parent_cert' = parent
            /\ number_certs' = number_certs + 1
            /\ CASE outcome.tag = "Err" ->
                      /\ pc' = "done"
                      /\ result' = outcome
                      /\ UNCHANGED <<current_cert, root_ca_not_found, walked>>
                 [] outcome.tag = "Break" ->
                      /\ pc' = "done"
                      /\ root_ca_not_found' = FALSE
                      /\ result' = verify_chain_end(FALSE)
                      /\ walked' = Append(walked, Walked(parent))
                      /\ UNCHANGED current_cert
                 [] outcome.tag = "Continue" ->
                      /\ pc' = "loop"
                      /\ current_cert' = parent
                      /\ walked' = Append(walked, Walked(parent))
                      /\ UNCHANGED <<root_ca_not_found, result>>
    /\ UNCHANGED now
    /\ UNCHANGED exceptChainVars

\* verify_chain, the iterator is exhausted.
VerifyChainEnd ==
    /\ pc = "loop"
    /\ pc' = "done"
    /\ result' = verify_chain_end(root_ca_not_found)
    /\ UNCHANGED <<now, current_cert, parent_cert, number_certs, root_ca_not_found, walked>>
    /\ UNCHANGED exceptChainVars

NextChain == CertVerify \/ VerifyChainCall \/ VerifyChainNext \/ VerifyChainEnd

SpecChain == Init /\ [][NextChain]_vars

(***************************************************************************)
(* The certificate builder: one action per setter, and build().            *)
(***************************************************************************)
BuilderValidities == ChainValidities
BuilderSubjects == {<<"Leaf", to_public_key("rsa2")>>, <<"Leaf", [kind |-> "EC", id |-> "ec1"]>>}
\* a request signed by its own key, and one whose signature is another key's
BuilderCsrs ==
    {Csr_generate("Leaf", "rsa2", "RsaSha1"),
     [Csr_generate("Leaf", "rsa2", "RsaSha1") EXCEPT !.signature.signer = "rsa1"]}
BuilderIssuers == {<<"Authority", "rsa1", id>> : id \in ChainKeyIds}
BuilderSelfSigned == {<<"Root CA", key>> : key \in PrivateKeys}
BuilderSignatureHashTypes == {"RsaSha384"}
BuilderKeyIdGenMethods == {SPKFullDER("Sha1"), SPKValueHashedLeftmost160("Sha256")}
BuilderKeyUsages == {[digital_signature |-> TRUE], [digital_signature |-> FALSE]}

valididy ==
    \E validity \in BuilderValidities :
        /\ inner' = [inner EXCEPT !.valid_from = Some(validity[1]),
                                  !.valid_to = Some(validity[2])]
        /\ ret' = Self
        /\ UNCHANGED exceptBuilderVars

subject ==
    \E s \in BuilderSubjects :
        /\ inner' = [inner EXCEPT !.subject_infos = Some(SubjectInfos_NameAndPublicKey(s[1], s[2]))]
        /\ ret' = Self
        /\ UNCHANGED exceptBuilderVars

subject_from_csr ==
    \E csr \in BuilderCsrs :
        /\ inner' = [inner EXCEPT !.subject_infos = Some(SubjectInfos_Csr(csr))]
        /\ ret' = Self
        /\ UNCHANGED exceptBuilderVars

issuer ==
    \E i \in BuilderIssuers :
        /\ inner' = [inner EXCEPT !.issuer_infos = Some(IssuerInfos_Authority(i[1], i[2], i[3]))]
        /\ ret' = Self
        /\ UNCHANGED exceptBuilderVars

self_signed ==
    \E i \in BuilderSelfSigned :
        /\ inner' = [inner EXCEPT !.issuer_infos = Some(IssuerInfos_SelfSigned(i[1], i[2]))]
        /\ ret' = Self
        /\ UNCHANGED exceptBuilderVars

ca ==
    \E value \in BOOLEAN :
        /\ inner' = [inner EXCEPT !.ca = Some(value)]
        /\ ret' = Self
        /\ UNCHANGED exceptBuilderVars

pathlen ==
    \E value \in Pathlens :
        /\ inner' = [inner EXCEPT !.pathlen = Some(value)]
        /\ ret' = Self
        /\ UNCHANGED exceptBuilderVars

signature_hash_type ==
    \E value \in BuilderSignatureHashTypes :
        /\ inner' = [inner EXCEPT !.signature_hash_type = Some(value)]
        /\ ret' = Self
        /\ UNCHANGED exceptBuilderVars

key_id_gen_method ==
    \E value \in BuilderKeyIdGenMethods :
        /\ inner' = [inner EXCEPT !.key_id_gen_method = Some(value)]
        /\ ret' = Self
        /\ UNCHANGED exceptBuilderVars

key_usage ==
    \E value \in BuilderKeyUsages :
        /\ inner' = [inner EXCEPT !.key_usage = Some(value)]
        /\ ret' = Self
        /\ UNCHANGED exceptBuilderVars

extended_key_usage ==
    /\ inner' = [inner EXCEPT !.extended_key_usage = Some("serverAuth")]
    /\ ret' = Self
    /\ UNCHANGED exceptBuilderVars

subject_alt_name ==
    /\ inner' = [inner EXCEPT !.subject_alt_name = Some("dns:leaf")]
    /\ ret' = Self
    /\ UNCHANGED exceptBuilderVars

issuer_alt_name ==
    /\ inner' = [inner EXCEPT !.issuer_alt_name = Some("dns:authority")]
    /\ ret' = Self
    /\ UNCHANGED exceptBuilderVars

Build ==
    \E serial_number \in Serials :
        /\ inner' = build(inner, serial_number).inner
        /\ ret' = build(inner, serial_number).ret
        /\ UNCHANGED exceptBuilderVars

NextBuilder ==
    \/ valididy
    \/ subject
    \/ subject_from_csr
    \/ issuer
    \/ self_signed
    \/ ca
    \/ pathlen
    \/ signature_hash_type
    \/ key_id_gen_method
    \/ key_usage
    \/ extended_key_usage
    \/ subject_alt_name
    \/ issuer_alt_name
    \/ Build

SpecBuilder == Init /\ [][NextBuilder]_vars

(***************************************************************************)
(* Calls of the stateless functions: each action is one call, on arguments *)
(* drawn from a bounded set, and records the value returned.               *)
(***************************************************************************)
Value(x) == [tag |-> "Value", v |-> x]

\* certificates as parsed from DER, issued under any of the names
TyCerts ==
    {LET algorithm == AlgorithmIdentifierFrom("RsaSha256")
         tbs == TBSCertificate(0, algorithm, issuer_, 0, 1, subject_,
                               to_public_key("rsa1"), ParsedExtensions(bc, None, None))
     IN Certificate(tbs, algorithm, [algo |-> "RsaSha256", signer |-> "rsa1", msg |-> tbs]) :
        subject_ \in ChainNames, issuer_ \in ChainNames, bc \in OptionalBasicConstraints}

\* builder inputs of the tests: validity, issuer, subject and the ca flag
TyBuilderIssuers ==
    {IssuerInfos_SelfSigned("Root CA", "rsa1"),
     IssuerInfos_Authority("Root CA", "rsa1",
                           generate_from(SPKFullDER("Sha256"), to_public_key("rsa1")).v)}
TyBuilderSubjects ==
    {None} \cup {Some(SubjectInfos_NameAndPublicKey(name, to_public_key("rsa2"))) :
                    name \in {"Root CA", "Authority", "Leaf"}}
TyBuilderInners ==
    {[CertificateBuilder_new EXCEPT !.valid_from = Some(0), !.valid_to = Some(1),
                                    !.issuer_infos = Some(issuer_infos),
                                    !.subject_infos = subject_infos,
                                    !.ca = ca_, !.pathlen = pathlen_] :
        issuer_infos \in TyBuilderIssuers, subject_infos \in TyBuilderSubjects,
        ca_ \in {None, Some(TRUE), Some(FALSE)},
        pathlen_ \in {None} \cup {Some(n) : n \in Pathlens}}

\* Cert::ty on a parsed certificate
CertTy ==
    /\ \E cert \in TyCerts :
         /\ call' = [fn |-> "Cert::ty", cert |-> cert]
         /\ returned' = Value(Cert_ty(cert))
    /\ UNCHANGED exceptCallVars

\* CertificateBuilder::build followed by Cert::ty on the certificate built
BuildThenTy ==
    /\ \E inner_ \in TyBuilderInners :
         LET built == build(inner_, 0).ret
         IN /\ call' = [fn |-> "CertificateBuilder::build, Cert::ty", inner |-> inner_]
            /\ returned' = IF built.tag = "Ok" THEN Value(Cert_ty(built.v)) ELSE built
    /\ UNCHANGED exceptCallVars

\* KeyIdGenMethod::generate_from
KeyIdGenMethods ==
    {SPKFullDER(hash_algo) : hash_algo \in KeyIdHashAlgos}
    \cup {SPKValueHashedLeftmost160(hash_algo) : hash_algo \in KeyIdHashAlgos}

GenerateFrom ==
    /\ \E method \in KeyIdGenMethods, public_key \in PublicKeys :
         /\ call' = [fn |-> "KeyIdGenMethod::generate_from",
                     method |-> method, public_key |-> public_key]
         /\ returned' = generate_from(method, public_key)
    /\ UNCHANGED exceptCallVars

\* SignatureHashType::sign, then SignatureHashType::verify of the signature
\* it returned, under any algorithm, public key and message
SigningKeys == PrivateKeys \cup {UnsupportedPrivateKey}
Messages == {"msg0", "msg1"}

SignThenVerify ==
    /\ \E sign_ty \in SignatureHashTypes, private_key \in SigningKeys, msg \in Messages,
          verify_ty \in SignatureHashTypes, public_key \in PublicKeys,
          verify_msg \in Messages :
         LET signature == Signature_sign(sign_ty, msg, private_key)
         IN /\ call' = [fn |-> "SignatureHashType::sign, SignatureHashType::verify",
                        sign_ty |-> sign_ty, private_key |-> private_key, msg |-> msg,
                        signature |-> signature,
                        verify_ty |-> verify_ty, public_key |-> public_key,
                        verify_msg |-> verify_msg]
            /\ returned' = IF signature.tag = "Ok"
                           THEN Signature_verify(verify_ty, public_key, verify_msg,
                                                 signature.v)
                           ELSE signature
    /\ UNCHANGED exceptCallVars

\* SignatureHashType::from_algorithm_identifier
AlgorithmIdentifiers ==
    {AlgorithmIdentifierFrom(ty_) : ty_ \in SignatureHashTypes}
    \cup {[algorithm |-> ECDSA_WITH_SHA256], [algorithm |-> "1.2.840.113549.1.1.4"]}

FromAlgorithmIdentifier ==
    /\ \E algorithm_identifier \in AlgorithmIdentifiers :
         /\ call' = [fn |-> "SignatureHashType::from_algorithm_identifier",
                     algorithm_identifier |-> algorithm_identifier]
         /\ returned' = from_algorithm_identifier(algorithm_identifier)
    /\ UNCHANGED exceptCallVars

\* Cert::verify_chain, the signature step on a certificate signed under any
\* algorithm identifier
VerifyChainSignature ==
    /\ \E algorithm_identifier \in AlgorithmIdentifiers, signer \in PrivateKeys,
          spki \in PublicKeys :
         LET current == ParsedCert("Leaf", <<0, 1>>, to_public_key("rsa2"), None, None, None,
                                   <<algorithm_identifier,
                                     option_unwrap_or(
                                         from_algorithm_identifier(algorithm_identifier),
                                         "EcdsaSha256"),
                                     signer>>)
             parent == ParsedCert("Authority", <<0, 1>>, spki, None, None, None,
                                  <<AlgorithmIdentifierFrom("RsaSha256"), "RsaSha256", "rsa1">>)
         IN /\ call' = [fn |-> "Cert::verify_chain (signature)",
                        current |-> current, parent |-> parent]
            /\ returned' = VerifyCurrentSignature(current, parent)
    /\ UNCHANGED exceptCallVars

\* Jwk::from_public_key
JwkFromPublicKey ==
    /\ \E public_key \in PublicKeys :
         /\ call' = [fn |-> "Jwk::from_public_key", public_key |-> public_key]
         /\ returned' = Jwk_from_public_key(public_key)
    /\ UNCHANGED exceptCallVars

NextCalls ==
    \/ CertTy
    \/ BuildThenTy
    \/ GenerateFrom
    \/ SignThenVerify
    \/ FromAlgorithmIdentifier
    \/ VerifyChainSignature
    \/ JwkFromPublicKey

SpecCalls == Init /\ [][NextCalls]_vars

(***************************************************************************)
(* picky-asn1-der, de::Sequence: the lazy walk through the sub-elements of *)
(* a SEQUENCE.  The reader is the deserializer's reader over the whole     *)
(* input; an element's decoder advances it by the bytes the element's own  *)
(* header announces, as far as the input goes.                             *)
(***************************************************************************)
\* usize arithmetic: the width is scaled down to 16 bits
UsizeModulus == 65536

\* self.len -= consumed: the subtraction overflows when consumed > len; a
\* build with overflow checks panics, a build without them wraps
usize_sub_assign(len_, consumed) ==
    IF consumed <= len_
    THEN {[tag |-> "Ok", v |-> len_ - consumed]}
    ELSE {Panic, [tag |-> "Ok", v |-> (len_ - consumed) % UsizeModulus]}

\* Sequence::deserialize_lazy on a deserializer at the start of its input
DeserializeLazy ==
    /\ sequence = NoSequence
    /\ \E input_len \in 0..MaxInput, len_ \in 0..MaxInput :
         /\ reader' = [pos |-> 0, input_len |-> input_len]
         /\ sequence' = [tag |-> "Sequence", len |-> len_, created_with |-> len_]
    /\ element' = NoResult
    /\ UNCHANGED exceptSequenceVars

\* Sequence::next_element_seed, no data remaining
NextElementNone ==
    /\ sequence.tag = "Sequence"
    /\ element.tag \in {"NoResult", "Ok"}
    /\ sequence.len = 0
    /\ element' = Ok(None)
    /\ UNCHANGED <<reader, sequence>>
    /\ UNCHANGED exceptSequenceVars

\* Sequence::next_element_seed, the element's decoder succeeds after
\* reading consumed bytes
NextElementSome ==
    /\ sequence.tag = "Sequence"
    /\ element.tag \in {"NoResult", "Ok"}
    /\ sequence.len # 0
    /\ \E consumed \in 1..(reader.input_len - reader.pos) :
         /\ reader' = [reader EXCEPT !.pos = reader.pos + consumed]
         /\ \E len_ \in usize_sub_assign(sequence.len, consumed) :
              IF len_ = Panic
              THEN /\ sequence' = Panic
                   /\ element' = Panic
              ELSE /\ sequence' = [sequence EXCEPT !.len = len_.v]
                   /\ element' = Ok(Some([consumed |-> consumed]))
    /\ UNCHANGED exceptSequenceVars

\* Sequence::next_element_seed, the element's decoder fails after reading
\* consumed bytes: the error is returned before len is updated
NextElementErr ==
    /\ sequence.tag = "Sequence"
    /\ element.tag \in {"NoResult", "Ok"}
    /\ sequence.len # 0
    /\ \E consumed \in 0..(reader.input_len - reader.pos) :
         reader' = [reader EXCEPT !.pos = reader.pos + consumed]
    /\ element' = Err([kind |-> "TruncatedData"])
    /\ UNCHANGED sequence
    /\ UNCHANGED exceptSequenceVars

NextSequence ==
    \/ DeserializeLazy
    \/ NextElementNone
    \/ NextElementSome
    \/ NextElementErr

SpecSequence == Init /\ [][NextSequence]_vars

(***************************************************************************)
(* The server: its start and the calls of the controller's functions.      *)
(***************************************************************************)
MaxStores == 3
MaxLookups == 3

\* keys drawn by generate_private_key(4096), by generate_private_key(2048)
\* and by the clients for their requests
RSA_4096_POOL == {"rsa1"}
RSA_2048_POOL == {"rsa2"}
ClientKey == "rsa3"

\* A root made elsewhere, whose key identifiers are the SHA-1 digest of its
\* public key.
ProvisionedRoot ==
    build([CertificateBuilder_new EXCEPT
              !.valid_from = Some(RootValidity[1]),
              !.valid_to = Some(RootValidity[2]),
              !.issuer_infos = Some(IssuerInfos_SelfSigned(RootName(ServerConfig_default),
                                                           "rsa1")),
              !.key_id_gen_method = Some(SPKFullDER("Sha1")),
              !.ca = Some(TRUE)], 0).ret.v

\* Two certificates each of which names the other as its authority.
CyclicCert(subject_, own_key, other_key) ==
    ParsedCert(subject_, RootValidity, to_public_key(own_key),
               Some([ca |-> Some(TRUE), pathlen |-> None]),
               Some(generate_from(SPKFullDER("Sha256"), to_public_key(own_key)).v),
               Some(generate_from(SPKFullDER("Sha256"), to_public_key(other_key)).v),
               <<AlgorithmIdentifierFrom("RsaSha256"), "RsaSha256", other_key>>)

\* The configurations the server is started with.
Configs ==
    <<ServerConfig_default,
      [ServerConfig_default EXCEPT !.save_certificate = TRUE],
      [ServerConfig_default EXCEPT
          !.save_certificate = TRUE,
          !.root_cert = Some(to_pem("CERTIFICATE", Cert_to_der(ProvisionedRoot))),
          !.root_key = Some(to_pem("PRIVATE KEY", to_pkcs8("rsa1")))],
      [ServerConfig_default EXCEPT
          !.root_cert = Some(to_pem("CERTIFICATE",
                                    Cert_to_der(CyclicCert("Cycle A", "rsa1", "rsa2")))),
          !.root_key = Some(to_pem("PRIVATE KEY", to_pkcs8("rsa1"))),
          !.intermediate_cert = Some(to_pem("CERTIFICATE",
                                            Cert_to_der(CyclicCert("Cycle B", "rsa2", "rsa1")))),
          !.intermediate_key = Some(to_pem("PRIVATE KEY", NotPkcs8))]>>

\* The contents the backend holds when the server starts: nothing, or the
\* root of an earlier deployment kept under the root's name.
PersistedBackends ==
    <<Backend_new,
      Backend_store(Backend_new, RootName(ServerConfig_default),
                    Cert_to_der(ProvisionedRoot), Some(to_pkcs8("rsa1")),
                    hex_encode(subject_key_identifier(ProvisionedRoot).v))>>

\* The names and the requests the clients send.
SignCaNames ==
    {RootName(ServerConfig_default), IntermediateName(ServerConfig_default),
     Display(RootName(ServerConfig_default)), Display("Leaf")}
ChainCaNames ==
    {RootName(ServerConfig_default), IntermediateName(ServerConfig_default),
     Display("Cycle A")}
SignSerials == {0}
SignCsrs ==
    <<Csr_generate("Leaf", ClientKey, "RsaSha384"),
      [Csr_generate("Leaf", ClientKey, "RsaSha384") EXCEPT !.signature.signer = "rsa1"]>>

\* ServerConfig::new, Backend::from and repos.init
Start ==
    /\ server_pc = "start"
    /\ \E i \in DOMAIN Configs : config' = Configs[i]
    /\ \E i \in DOMAIN PersistedBackends : repos' = PersistedBackends[i]
    /\ server_pc' = "ready"
    /\ UNCHANGED <<stores, response, cert_der, chain, current_key_id, lookups>>
    /\ UNCHANGED exceptServerVars

\* the effect of a controller function that runs to its end in one step
Returned(fn, args, returns) ==
    /\ Len(stores) + Len(returns.stores) <= MaxStores
    /\ repos' = returns.repos
    /\ stores' = stores \o returns.stores
    /\ response' = [fn |-> fn, args |-> args, ret |-> returns.ret]
    /\ UNCHANGED <<server_pc, config, cert_der, chain, current_key_id, lookups>>
    /\ UNCHANGED exceptServerVars

CheckCertsInEnv ==
    /\ server_pc = "ready"
    /\ Returned("check_certs_in_env", <<>>, check_certs_in_env(config, repos))

GenerateRootCa ==
    /\ server_pc = "ready"
    /\ \E pk \in RSA_4096_POOL :
        Returned("generate_root_ca", <<>>, generate_root_ca(config, repos, pk))

GenerateIntermediate ==
    /\ server_pc = "ready"
    /\ \E pk \in RSA_2048_POOL :
        Returned("generate_intermediate", <<>>, generate_intermediate(config, repos, pk))

SignCertificate ==
    /\ server_pc = "ready"
    /\ \E ca_name \in SignCaNames, i \in DOMAIN SignCsrs, serial_number \in SignSerials :
        Returned("sign_certificate", <<ca_name, SignCsrs[i]>>,
                 sign_certificate(ca_name, SignCsrs[i], config, repos, serial_number))

\* find_ca_chain, up to the loop
FindCaChainCall ==
    /\ server_pc = "ready"
    /\ \E ca_name \in ChainCaNames :
        LET ca_hash == Backend_find(repos, ca_name)
            first_der == Backend_get_cert(repos, ca_hash.v[1].value)
            failed(text) ==
                /\ response' = [fn |-> "find_ca_chain", args |-> <<ca_name>>,
                                ret |-> Message(text)]
                /\ UNCHANGED <<server_pc, cert_der, chain, current_key_id, lookups>>
        IN IF ca_hash.tag # "Ok" THEN failed("couldn't fetch CA hash id")
           ELSE IF Len(ca_hash.v) = 0 THEN failed("No intermediate certificate found!")
           ELSE IF first_der.tag # "Ok" THEN failed("couldn't fetch CA certificate der")
           ELSE /\ cert_der' = first_der.v
                /\ chain' = <<to_pem("CERTIFICATE", first_der.v)>>
                /\ current_key_id' = String_default
                /\ lookups' = <<>>
                /\ server_pc' = "find_ca_chain"
                /\ response' = [fn |-> "find_ca_chain", args |-> <<ca_name>>,
                                ret |-> NoResult]
    /\ UNCHANGED <<config, repos, stores>>
    /\ UNCHANGED exceptServerVars

\* find_ca_chain, one turn of the loop
FindCaChainLoop ==
    /\ server_pc = "find_ca_chain"
    /\ Len(lookups) < MaxLookups
    /\ LET cert == Cert_from_der(cert_der)
           aki == authority_key_identifier(cert.v)
           parent_key_id == hex_encode(aki.v)
           cert_hash == Backend_get_hash_from_key_identifier(repos, parent_key_id)
           next_der == Backend_get_cert(repos, cert_hash.v)
           return(value, looked_up) ==
               /\ response' = [response EXCEPT !.ret = value]
               /\ server_pc' = "ready"
               /\ cert_der' = NoResult
               /\ chain' = <<>>
               /\ current_key_id' = String_default
               /\ lookups' = looked_up
       IN IF cert.tag # "Ok"
          THEN return(Message("couldn't deserialize certificate"), lookups)
          ELSE IF aki.tag # "Ok"
          THEN return(Message("couldn't fetch authority key identifier"), lookups)
          ELSE IF current_key_id = parent_key_id
          THEN return(Ok(chain), lookups)
          ELSE IF cert_hash.tag # "Ok"
          THEN return(Message("couldn't fetch hash"), Append(lookups, parent_key_id))
          ELSE IF next_der.tag # "Ok"
          THEN return(Message("couldn't fetch certificate der"),
                      Append(lookups, parent_key_id))
          ELSE /\ cert_der' = next_der.v
               /\ chain' = Append(chain, to_pem("CERTIFICATE", next_der.v))
               /\ current_key_id' = parent_key_id
               /\ lookups' = Append(lookups, parent_key_id)
               /\ UNCHANGED <<server_pc, response>>
    /\ UNCHANGED <<config, repos, stores>>
    /\ UNCHANGED exceptServerVars

NextServer ==
    \/ Start
    \/ CheckCertsInEnv
    \/ GenerateRootCa
    \/ GenerateIntermediate
    \/ SignCertificate
    \/ FindCaChainCall
    \/ FindCaChainLoop

SpecServer == Init /\ [][NextServer]_vars

(***************************************************************************)
(* The HTTP surface: the server started on an empty backend, the bootstrap *)
(* of its two CAs, the handlers, and a backend some of whose operations    *)
(* fail for a time.                                                        *)
(***************************************************************************)
HttpConfigs == <<[ServerConfig_default EXCEPT !.save_certificate = TRUE]>>
BackendConditions == {{}, {"find"}, {"store", "health"}}

\* A leaf the Authority signed, and a certificate a client made with its
\* own key: it names the Authority as its issuer and carries the name and
\* the public key of the root, so that its SKI is the root's.
AuthorityName == IntermediateName(ServerConfig_default)
RootKeyId == generate_from(ControllerKeyIdGenMethod, to_public_key("rsa1")).v
SignedLeaf ==
    Picky_generate_leaf_from_csr(Csr_generate("Leaf", ClientKey, "RsaSha384"),
                                 AuthorityName, "rsa2", "RsaSha256", 0).v
ForgedCert ==
    build([CertificateBuilder_new EXCEPT
              !.valid_from = Some(LeafValidity[1]),
              !.valid_to = Some(LeafValidity[2]),
              !.subject_infos = Some(SubjectInfos_NameAndPublicKey(
                                         RootName(ServerConfig_default),
                                         to_public_key("rsa1"))),
              !.issuer_infos = Some(IssuerInfos_Authority(AuthorityName, ClientKey,
                                                          RootKeyId))], 0).ret.v
ForeignCert ==
    [SignedLeaf EXCEPT !.tbs_certificate.issuer = "Other Authority"]

PostCertRequests ==
    <<Request(Some("application/pkcs10"), Some("binary"),
              Body("der", Cert_to_der(ForgedCert))),
      Request(Some("application/pkcs10"), Some("base64"), Body("garbage", NotPkcs8)),
      Request(Some("application/json"), None,
              Body("json", [certificate |-> to_pem("CERTIFICATE",
                                                   Cert_to_der(ForeignCert))])),
      Request(Some("application/pkcs10"), Some("gzip"),
              Body("der", Cert_to_der(ForgedCert))),
      Request(Some("application/pkcs10"), None, Body("der", Cert_to_der(ForgedCert))),
      Request(None, None, Body("der", Cert_to_der(ForgedCert))),
      Request(Some("text/plain"), None, Body("der", Cert_to_der(ForgedCert)))>>

ValidCsr == Csr_generate("Leaf", ClientKey, "RsaSha384")
ForgedCsr == [ValidCsr EXCEPT !.signature.signer = "rsa1"]
SignCertRequests ==
    <<Request(Some("application/pkcs10"), Some("binary"),
              Body("der", Csr_to_der(ValidCsr))),
      Request(Some("application/pkcs10"), Some("base64"),
              Body("pem", to_pem("CERTIFICATE REQUEST", Cert_to_der(SignedLeaf)))),
      Request(Some("application/json"), None,
              Body("json", [csr |-> to_pem("CERTIFICATE REQUEST", Csr_to_der(ForgedCsr)),
                            ca |-> None])),
      Request(Some("application/json"), None,
              Body("json", [csr |-> to_pem("CERTIFICATE REQUEST", Csr_to_der(ValidCsr)),
                            ca |-> Some(AuthorityName)])),
      Request(None, None, Body("der", Csr_to_der(ValidCsr)))>>

ChainCaptures == {None, Some(RootName(ServerConfig_default)), Some(Display("Leaf"))}
BareSha256(data) == [multihash_encode(data) EXCEPT !.code = "none"]
\* (the multihash of the path, Accept-Encoding)
CertCaptures ==
    {<<None, None>>,
     <<Some(multihash_encode(Cert_to_der(SignedLeaf))), Some("binary")>>,
     <<Some(BareSha256(Cert_to_der(SignedLeaf))), None>>,
     <<Some(BareSha256(Cert_to_der(ForeignCert))), Some("base64")>>}
\* (the multihash of the path, the format of the path)
CertOldCaptures ==
    {<<Some(multihash_encode(Cert_to_der(SignedLeaf))), Some("der")>>,
     <<Some(BareSha256(Cert_to_der(SignedLeaf))), Some("pem")>>,
     <<Some(BareSha256(Cert_to_der(ForeignCert))), Some("der")>>}
RequestNameRequests ==
    <<Request(None, None,
              Body("json", [csr |-> to_pem("CERTIFICATE REQUEST", Csr_to_der(ValidCsr))])),
      Request(None, None, Body("garbage", NotPkcs8))>>

\* ServerConfig::new, Backend::from and repos.init, on an empty backend
StartHttp ==
    /\ server_pc = "start"
    /\ \E i \in DOMAIN HttpConfigs : config' = HttpConfigs[i]
    /\ repos' = Backend_new
    /\ server_pc' = "ready"
    /\ UNCHANGED <<stores, response, cert_der, chain, current_key_id, lookups>>
    /\ UNCHANGED exceptServerVars

\* some operations of the backend begin or cease to fail
BackendCondition ==
    /\ server_pc = "ready"
    /\ \E failing \in BackendConditions \ {repos.failing} :
        repos' = [repos EXCEPT !.failing = failing]
    /\ UNCHANGED <<server_pc, config, stores, response, cert_der, chain,
                   current_key_id, lookups>>
    /\ UNCHANGED exceptServerVars

\* the effect of a handler: the response it leaves and the stores it made
Answered(fn, args, answers) ==
    /\ Len(stores) + Len(answers.stores) <= MaxStores
    /\ repos' = answers.repos
    /\ stores' = stores \o answers.stores
    /\ response' = [fn |-> fn, args |-> args,
                    ret |-> [tag |-> "Answer", status |-> answers.status,
                             body |-> answers.body]]
    /\ UNCHANGED <<server_pc, config, cert_der, chain, current_key_id, lookups>>
    /\ UNCHANGED exceptServerVars

HealthHandler ==
    /\ server_pc = "ready"
    /\ \E answers \in {health(repos)} : Answered("health", <<>>, answers)

PostCert ==
    /\ server_pc = "ready"
    /\ \E req \in {PostCertRequests[i] : i \in DOMAIN PostCertRequests} :
        \E answers \in {post_cert(config, repos, req)} :
            Answered("post_cert", <<req>>, answers)

SignCert ==
    /\ server_pc = "ready"
    /\ \E req \in {SignCertRequests[i] : i \in DOMAIN SignCertRequests},
          serial_number \in SignSerials :
        \E answers \in {sign_cert(config, repos, req, serial_number)} :
            Answered("sign_cert", <<req>>, answers)

\* a call whose walk does not end leaves no response
ChainDefault ==
    /\ server_pc = "ready"
    /\ \E found \in {find_ca_chain(repos, IntermediateName(config))} :
        /\ found # NoReturn
        /\ Answered("chain_default", <<>>, chain_default(repos, found))

Chain ==
    /\ server_pc = "ready"
    /\ \E ca_capture \in ChainCaptures :
        \E found \in {IF ca_capture.tag = "Some"
                       THEN find_ca_chain(repos, ca_capture.v)
                       ELSE NoResult} :
            /\ found # NoReturn
            /\ Answered("chain", <<ca_capture>>, chain_by_name(repos, ca_capture, found))

CertHandler ==
    /\ server_pc = "ready"
    /\ \E capture \in CertCaptures :
        \E answers \in {cert_by_multihash(repos, capture[1], capture[2])} :
            Answered("cert", capture, answers)

CertOld ==
    /\ server_pc = "ready"
    /\ \E capture \in CertOldCaptures :
        \E answers \in {cert_old(repos, capture[1], capture[2])} :
            Answered("cert_old", capture, answers)

RequestName ==
    /\ server_pc = "ready"
    /\ \E req \in {RequestNameRequests[i] : i \in DOMAIN RequestNameRequests} :
        \E answers \in {request_name(repos, req)} :
            Answered("request_name", <<req>>, answers)

NextHttp ==
    \/ StartHttp
    \/ BackendCondition
    \/ GenerateRootCa
    \/ GenerateIntermediate
    \/ HealthHandler
    \/ PostCert
    \/ SignCert
    \/ ChainDefault
    \/ Chain
    \/ CertHandler
    \/ CertOld
    \/ RequestName

SpecHttp == Init /\ [][NextHttp]_vars

(***************************************************************************)
(* The MongoDB backend taken alone: calls of store, any of whose inserts   *)
(* may fail.                                                               *)
(***************************************************************************)
MongoNames == {RootName(ServerConfig_default)}
\* two certificates with the same subject key identifier
MongoCerts ==
    <<Picky_generate_root(RootName(ServerConfig_default), "RsaSha256", "rsa1").v,
      CyclicCert("Cycle A", "rsa1", "rsa2")>>
MongoKeys == {to_pkcs8("rsa1"), to_pkcs8("rsa2")}
FailingInserts == 0..4

MongoStore ==
    /\ server_pc = "start"
    /\ \E name \in MongoNames, i \in DOMAIN MongoCerts, key \in MongoKeys,
          failing \in FailingInserts :
        LET cert == Cert_to_der(MongoCerts[i])
            key_identifier == hex_encode(subject_key_identifier(MongoCerts[i]).v)
            stored == MongoRepos_store(repos, name, cert, key, key_identifier, failing)
        IN /\ repos' = stored.repos
           /\ response' = [fn |-> "store",
                           args |-> <<name, cert, key, key_identifier>>,
                           ret |-> stored.ret]
    /\ UNCHANGED <<server_pc, config, stores, cert_der, chain, current_key_id, lookups>>
    /\ UNCHANGED exceptServerVars

NextBackend == MongoStore

SpecBackend == Init /\ [][NextBackend]_vars

(***************************************************************************)
(* Two invocations of the bootstrap (generate_root_ca, then                *)
(* generate_intermediate) against one backend, which was empty when the    *)
(* server started.  The backend serializes its calls: a step is one call   *)
(* of the backend with the computation that follows it.  get_cert and      *)
(* get_key of the root are one step: both read by the hash that find       *)
(* returned, and what a hash leads to is never changed.                    *)
(***************************************************************************)
\* the keys generate_private_key(4096) and generate_private_key(2048) draw
BOOTSTRAP_4096_POOL == {"rsa1", "rsa4"}
BOOTSTRAP_2048_POOL == {"rsa2", "rsa5"}

At(p, position) == server_pc = "ready" /\ invocations[p].pc = position
Moves(p, position, held) ==
    invocations' = [invocations EXCEPT ![p] = Invocation(position, held)]
\* the store that ends a generation, or the error that ends the invocation
Creates(p, returns, position) ==
    /\ Len(stores) + Len(returns.stores) <= MaxStores
    /\ repos' = returns.repos
    /\ stores' = stores \o returns.stores
    /\ Moves(p, IF returns.ret.tag = "Ok" THEN position ELSE "failed", NoResult)
    /\ UNCHANGED <<server_pc, config, response, cert_der, chain, current_key_id, lookups>>
    /\ UNCHANGED exceptBootstrapVars

\* generate_root_ca: repos.find(name)
RootCaFind(p) ==
    /\ At(p, "generate_root_ca")
    /\ Moves(p, IF generate_root_ca_exists(config, repos)
                THEN "generate_intermediate" ELSE "generate_root", NoResult)
    /\ UNCHANGED serverVars
    /\ UNCHANGED exceptBootstrapVars

\* generate_root_ca: the key, the certificate and repos.store
RootCaCreate(p) ==
    /\ At(p, "generate_root")
    /\ \E pk \in BOOTSTRAP_4096_POOL :
        \E returns \in {generate_root_ca_create(config, repos, pk)} :
            Creates(p, returns, "generate_intermediate")

\* generate_intermediate: repos.find(intermediate_name)
IntermediateFind(p) ==
    /\ At(p, "generate_intermediate")
    /\ Moves(p, IF generate_intermediate_exists(config, repos)
                THEN "done" ELSE "find_root", NoResult)
    /\ UNCHANGED serverVars
    /\ UNCHANGED exceptBootstrapVars

\* generate_intermediate: repos.find(root_name)
IntermediateFindRoot(p) ==
    /\ At(p, "find_root")
    /\ \E roots \in {generate_intermediate_find_root(config, repos)} :
        Moves(p, IF roots.tag = "Ok" THEN "get_root" ELSE "failed", roots)
    /\ UNCHANGED serverVars
    /\ UNCHANGED exceptBootstrapVars

\* generate_intermediate: repos.get_cert and repos.get_key of the root
IntermediateGetRoot(p) ==
    /\ At(p, "get_root")
    /\ \E root \in {generate_intermediate_get_root(repos, invocations[p].held.v)} :
        Moves(p, IF root.tag = "Ok" THEN "generate_intermediate_cert" ELSE "failed", root)
    /\ UNCHANGED serverVars
    /\ UNCHANGED exceptBootstrapVars

\* generate_intermediate: the key, the certificate and repos.store
IntermediateCreate(p) ==
    /\ At(p, "generate_intermediate_cert")
    /\ \E pk \in BOOTSTRAP_2048_POOL :
        \E returns \in {generate_intermediate_create(config, repos,
                                                     invocations[p].held.v.root_cert,
                                                     invocations[p].held.v.root_key, pk)} :
            Creates(p, returns, "done")

NextBootstrap ==
    \/ StartHttp
    \/ \E p \in Invocations : RootCaFind(p)
    \/ \E p \in Invocations : RootCaCreate(p)
    \/ \E p \in Invocations : IntermediateFind(p)
    \/ \E p \in Invocations : IntermediateFindRoot(p)
    \/ \E p \in Invocations : IntermediateGetRoot(p)
    \/ \E p \in Invocations : IntermediateCreate(p)

SpecBootstrap == Init /\ [][NextBootstrap]_vars

(***************************************************************************)
(* Properties of chain verification.                                       *)
(***************************************************************************)
Contains(validity, t) == validity.not_before <= t /\ t <= validity.not_after
ReturnedOk == pc = "done" /\ result = Ok(Unit)
ReturnedErr(kind) == pc = "done" /\ result.tag = "Err" /\ result.error.kind = kind
\* 0-based position in the chain of the parent taken last
Position == number_certs - 1
Examined == pc \in {"loop", "done"} /\ parent_cert # NoCert

\* C1 Chain soundness: when verify_chain returns Ok, every walked parent's SKI
\* equals the AKI of the certificate walked before it, and the validity
\* window of the leaf and of every walked parent contains the clock value.
C1_ChainSoundness ==
    ReturnedOk =>
        /\ \A i \in 1..(Len(walked) - 1) :
              /\ walked[i + 1].ski.tag = "Ok"
              /\ walked[i].aki.tag = "Ok"
              /\ walked[i + 1].ski.v = walked[i].aki.v
        /\ \A i \in 1..Len(walked) : Contains(walked[i], now)

C1_Witness ==
    /\ ReturnedOk
    /\ Len(walked) = 3
    /\ walked[2].ski # walked[2].aki

\* C2 CA flag enforcement (as claimed): every parent accepted as an issuer,
\* up to and including the root, has BasicConstraints with ca = true.
C2_CAFlagEnforced ==
    /\ (pc = "loop" /\ number_certs >= 1) =>
          /\ basic_constraints(current_cert).tag = "Ok"
          /\ basic_constraints(current_cert).v.ca = Some(TRUE)
    /\ ReturnedOk =>
          /\ basic_constraints(parent_cert).tag = "Ok"
          /\ basic_constraints(parent_cert).v.ca = Some(TRUE)

PathlenOf(cert) == unwrap_or(basic_constraints(cert), [ca |-> None, pathlen |-> None]).pathlen
CaOf(cert) == unwrap_or(basic_constraints(cert), [ca |-> None, pathlen |-> None]).ca
TooDeep(cert) ==
    Err([kind |-> "CAChainTooDeep", cert_id |-> Display(subject_name(cert)),
         pathlen |-> PathlenOf(cert).v])

\* C3 Pathlen rule (as claimed): a parent at position i whose pathlen is
\* present and < i makes the call fail with CAChainTooDeep carrying that
\* parent's subject and pathlen; a parent whose pathlen is absent or >= i is
\* never rejected for depth.
C3_PathlenRule_Original ==
    Examined =>
        IF PathlenOf(parent_cert).tag = "Some" /\ PathlenOf(parent_cert).v < Position
        THEN pc = "done" /\ result = TooDeep(parent_cert)
        ELSE ~ReturnedErr("CAChainTooDeep")

\* C3 Pathlen rule (amended): the same for a parent whose ca is not false; a
\* parent whose ca is false is rejected with IssuerIsNotCA whatever its pathlen.
C3_PathlenRule ==
    Examined =>
        IF CaOf(parent_cert) = Some(FALSE)
        THEN /\ pc = "done"
             /\ result = Err([kind |-> "IssuerIsNotCA",
                              issuer_id |-> Display(subject_name(parent_cert))])
        ELSE IF PathlenOf(parent_cert).tag = "Some" /\ PathlenOf(parent_cert).v < Position
             THEN pc = "done" /\ result = TooDeep(parent_cert)
             ELSE ~ReturnedErr("CAChainTooDeep")

C3_Witness ==
    /\ ReturnedErr("CAChainTooDeep")
    /\ Position = 1
    /\ result.error.pathlen = 0
    /\ result.error.cert_id = "CN=Authority"
    /\ subject_name(current_cert) = "Leaf"

\* C4 Missing root: when the chain iterator is exhausted the call returns
\* CAChainNoRoot (the empty chain included), and it returns Ok only when the
\* parent taken last is self-issued (SKI = AKI).
C4_MissingRoot ==
    /\ [][(pc = "loop" /\ pc' = "done" /\ number_certs' = number_certs)
            => result' = Err([kind |-> "CAChainNoRoot"])]_vars
    /\ [](ReturnedOk =>
            /\ parent_cert # NoCert
            /\ subject_key_identifier(parent_cert).tag = "Ok"
            /\ subject_key_identifier(parent_cert) = authority_key_identifier(parent_cert))

C4_Witness ==
    /\ ReturnedErr("CAChainNoRoot")
    /\ number_certs = 1
    /\ subject_key_identifier(current_cert) # authority_key_identifier(current_cert)

\* C5 Validity check: Cert::verify(now) is Ok iff not_before <= now <= not_after;
\* it reports CertificateNotYetValid{not_before, now} when now < not_before,
\* also when now > not_after holds too, and CertificateExpired{not_after, now}
\* when only now > not_after holds.
C5_ValidityCheck ==
    pc = "verified" =>
        LET validity == current_cert.tbs_certificate.validity
        IN /\ result = Ok(Unit) <=> Contains(validity, now)
           /\ now < validity.not_before =>
                 result = Err([kind |-> "CertificateNotYetValid",
                               not_before |-> validity.not_before, now |-> now])
           /\ (now > validity.not_after /\ ~(now < validity.not_before)) =>
                 result = Err([kind |-> "CertificateExpired",
                               not_after |-> validity.not_after, now |-> now])

C5_Witness ==
    /\ pc = "verified"
    /\ current_cert.tbs_certificate.validity.not_after < now
    /\ now < current_cert.tbs_certificate.validity.not_before
    /\ result.tag = "Err"
    /\ result.error.kind = "CertificateNotYetValid"

\* C6 Error attribution: a validity failure is wrapped in InvalidCertificate
\* with the subject of the certificate whose window excludes the clock value,
\* and a signature failure is wrapped in InvalidCertificate with the subject
\* of the child whose signature does not verify under the parent's key.
C6_ErrorAttribution ==
    ReturnedErr("InvalidCertificate") =>
        /\ result.error.source.kind \in {"CertificateNotYetValid", "CertificateExpired"} =>
              LET offender == IF parent_cert = NoCert THEN current_cert ELSE parent_cert
              IN /\ result.error.id = Display(subject_name(offender))
                 /\ ~Contains(offender.tbs_certificate.validity, now)
                 /\ parent_cert # NoCert => Contains(current_cert.tbs_certificate.validity, now)
        /\ result.error.source.kind = "BadSignature" =>
              /\ result.error.id = Display(subject_name(current_cert))
              /\ \/ current_cert.signature_value.signer
                      # parent_cert.tbs_certificate.subject_public_key_info.id
                 \/ current_cert.signature_value.msg # current_cert.tbs_certificate
                 \/ Some(current_cert.signature_value.algo)
                      # from_algorithm_identifier(current_cert.signature_algorithm)

C6_Witness ==
    /\ ReturnedErr("InvalidCertificate")
    /\ result.error.source.kind = "BadSignature"
    /\ number_certs = 2
    /\ result.error.id = "CN=Authority"
    /\ subject_name(parent_cert) = "Leaf"

(***************************************************************************)
(* Properties of the certificate builder.                                  *)
(***************************************************************************)
IsBuildStep == ret'.tag # "Self"
SelfSignedPending ==
    inner.issuer_infos.tag = "Some" /\ inner.issuer_infos.v.variant = "SelfSigned"
AuthorityPending ==
    inner.issuer_infos.tag = "Some" /\ inner.issuer_infos.v.variant = "Authority"
SelectedKeyIdGenMethod == option_unwrap_or(inner.key_id_gen_method, SPKFullDER("Sha256"))

\* C7 AKI/SKI consistency: every certificate that build() returns for
\* issuer_infos = SelfSigned has AuthorityKeyIdentifier.keyIdentifier equal to
\* its SubjectKeyIdentifier, and verify_chain's root test recognises it.
C7_AkiSkiConsistency ==
    [][(SelfSignedPending /\ ret'.tag = "Ok") =>
          /\ subject_key_identifier(ret'.v).tag = "Ok"
          /\ authority_key_identifier(ret'.v) = subject_key_identifier(ret'.v)
          /\ CheckRoot(ret'.v).tag = "Break"]_vars

C7_Witness ==
    /\ ret.tag = "Ok"
    /\ subject_name(ret.v) = "Root CA"
    /\ issuer_name(ret.v) = "Root CA"
    /\ subject_key_identifier(ret.v).v.algo = "Sha1"
    /\ authority_key_identifier(ret.v) = subject_key_identifier(ret.v)

\* C8 Builder required inputs (as claimed): build() fails with
\* MissingBuilderArgument naming the first missing field in the order
\* valid_from, valid_to, issuer_infos, subject_infos, the last one only for
\* issuer_infos = Authority; with issuer_infos = SelfSigned the build succeeds
\* without subject_infos and the certificate's subject name and public key are
\* the issuer's name and the public key of the signing key.
C8_RequiredInputs ==
    [][IsBuildStep =>
          IF inner.valid_from.tag = "None"
          THEN ret' = MissingBuilderArgument("valid_from")
          ELSE IF inner.valid_to.tag = "None"
          THEN ret' = MissingBuilderArgument("valid_to")
          ELSE IF inner.issuer_infos.tag = "None"
          THEN ret' = MissingBuilderArgument("issuer_infos")
          ELSE IF AuthorityPending /\ inner.subject_infos.tag = "None"
          THEN ret' = MissingBuilderArgument("subject_infos")
          ELSE IF SelfSignedPending
          THEN /\ ret'.tag = "Ok"
               /\ subject_name(ret'.v) = inner.issuer_infos.v.name
               /\ ret'.v.tbs_certificate.subject_public_key_info
                     = to_public_key(inner.issuer_infos.v.key)
          ELSE ~(ret'.tag = "Err" /\ ret'.error.kind = "MissingBuilderArgument")]_vars

\* C9 Builder is single-shot: in the state a build() call leaves, whatever it
\* returned, the validity is consumed, and a further build() returns
\* MissingBuilderArgument("valid_from") and changes nothing.
C9_SingleShot ==
    ret.tag # "Self" =>
        /\ inner.valid_from = None
        /\ inner.valid_to = None
        /\ \A serial_number \in Serials :
              /\ build(inner, serial_number).ret = MissingBuilderArgument("valid_from")
              /\ build(inner, serial_number).inner = inner

C9_Witness ==
    /\ ret = MissingBuilderArgument("issuer_infos")
    /\ inner.subject_infos.tag = "Some"
    /\ inner.ca.tag = "Some"

ExtensionOrder ==
    <<"BasicConstraints", "KeyUsage", "ExtendedKeyUsage", "SubjectAltName",
      "IssuerAltName", "SubjectKeyIdentifier", "AuthorityKeyIdentifier">>
ExtensionIds(cert) ==
    [i \in DOMAIN cert.tbs_certificate.extensions |->
        cert.tbs_certificate.extensions[i].extn_id]
Supplied(id) ==
    CASE id = "KeyUsage" -> inner.key_usage.tag = "Some"
      [] id = "ExtendedKeyUsage" -> inner.extended_key_usage.tag = "Some"
      [] id = "SubjectAltName" -> inner.subject_alt_name.tag = "Some"
      [] id = "IssuerAltName" -> inner.issuer_alt_name.tag = "Some"
      [] OTHER -> TRUE

\* C10 Extension composition: a certificate returned by build() carries, in
\* this order, BasicConstraints, KeyUsage, ExtendedKeyUsage, SubjectAltName,
\* IssuerAltName, SubjectKeyIdentifier, AuthorityKeyIdentifier, the first and
\* the last two always and the others iff supplied; BasicConstraints is
\* critical iff a KeyUsage with digitalSignature was supplied; the SKI is the
\* key identifier of the subject public key under the selected method.
C10_ExtensionComposition ==
    [][ret'.tag = "Ok" =>
          /\ ExtensionIds(ret'.v) = SelectSeq(ExtensionOrder, Supplied)
          /\ ret'.v.tbs_certificate.extensions[1].critical
                <=> (inner.key_usage.tag = "Some" /\ inner.key_usage.v.digital_signature)
          /\ subject_key_identifier(ret'.v)
                = generate_from(SelectedKeyIdGenMethod,
                                ret'.v.tbs_certificate.subject_public_key_info)]_vars

C10_Witness ==
    /\ ret.tag = "Ok"
    /\ Len(ret.v.tbs_certificate.extensions) = 7
    /\ ret.v.tbs_certificate.extensions[1].critical
    /\ subject_name(ret.v) = "Leaf"

(***************************************************************************)
(* Properties of the stateless functions.                                  *)
(***************************************************************************)
\* C11 Certificate type classification (as claimed): Cert::ty returns Root iff
\* ca = true and subject = issuer, Intermediate iff ca = true and subject #
\* issuer, Leaf iff ca = false, Unknown iff BasicConstraints is absent; the
\* builder's output is Root for self_signed + ca(true), Intermediate for
\* issuer(..) + ca(true) with a different subject, Leaf when ca is not set,
\* and never Unknown.
C11_TypeClassification ==
    /\ call.fn = "Cert::ty" =>
          LET cert == call.cert
              bc == basic_constraints(cert)
              ca_true == bc.tag = "Ok" /\ bc.v.ca = Some(TRUE)
              ca_false == bc.tag = "Ok" /\ bc.v.ca = Some(FALSE)
              self_issued == subject_name(cert) = issuer_name(cert)
          IN /\ returned.v \in CertTypes
             /\ returned.v = "Root" <=> (ca_true /\ self_issued)
             /\ returned.v = "Intermediate" <=> (ca_true /\ ~self_issued)
             /\ returned.v = "Leaf" <=> ca_false
             /\ returned.v = "Unknown" <=> bc.tag = "Err"
    /\ (call.fn = "CertificateBuilder::build, Cert::ty" /\ returned.tag = "Value") =>
          LET issuer_infos == call.inner.issuer_infos.v
              subject_infos == call.inner.subject_infos
          IN /\ returned.v # "Unknown"
             /\ (issuer_infos.variant = "SelfSigned" /\ call.inner.ca = Some(TRUE))
                   => returned.v = "Root"
             /\ (/\ issuer_infos.variant = "Authority"
                 /\ call.inner.ca = Some(TRUE)
                 /\ subject_infos.v.name # issuer_infos.issuer_name)
                   => returned.v = "Intermediate"
             /\ call.inner.ca = None => returned.v = "Leaf"

\* The classification Cert::ty computes: as claimed, except that Unknown is
\* returned whenever no ca value can be read, BasicConstraints present or not.
TypeClassificationOfCode ==
    /\ call.fn = "Cert::ty" =>
          LET cert == call.cert
              bc == basic_constraints(cert)
              ca_true == bc.tag = "Ok" /\ bc.v.ca = Some(TRUE)
              ca_false == bc.tag = "Ok" /\ bc.v.ca = Some(FALSE)
              self_issued == subject_name(cert) = issuer_name(cert)
          IN /\ returned.v = "Root" <=> (ca_true /\ self_issued)
             /\ returned.v = "Intermediate" <=> (ca_true /\ ~self_issued)
             /\ returned.v = "Leaf" <=> ca_false
             /\ returned.v = "Unknown" <=> (bc.tag = "Err" \/ bc.v.ca = None)

\* C12 Key-ID generation lengths (as claimed): for every hash and public key,
\* SPKValueHashedLeftmost160 returns Ok with the first 20 bytes of the digest
\* and SPKFullDER returns the full digest (20/28/32/48/64 bytes); neither
\* panics.
C12_KeyIdLengths ==
    call.fn = "KeyIdGenMethod::generate_from" =>
        LET hash_algo == call.method.hash_algo
            payload == IF call.public_key.kind = "RSA" THEN "RSAPublicKey"
                       ELSE "BitStringPayload"
        IN /\ returned.tag = "Ok"
           /\ call.method.method = "SPKValueHashedLeftmost160" =>
                 /\ returned.v.len = 20
                 /\ returned.v = [hash(hash_algo, [der |-> payload,
                                                   key |-> call.public_key])
                                    EXCEPT !.len = 20]
           /\ call.method.method = "SPKFullDER" =>
                 /\ returned.v = hash(hash_algo, [der |-> "SubjectPublicKeyInfo",
                                                  key |-> call.public_key])
                 /\ returned.v.len = DigestLen(hash_algo)

\* What holds of generate_from: SPKFullDER returns the full digest, and
\* SPKValueHashedLeftmost160 panics on every hash and key.
KeyIdLengthsOfCode ==
    call.fn = "KeyIdGenMethod::generate_from" =>
        /\ call.method.method = "SPKValueHashedLeftmost160" => returned = Panic
        /\ call.method.method = "SPKFullDER" =>
              /\ returned.tag = "Ok"
              /\ returned.v.len = DigestLen(call.method.hash_algo)

ECRefused ==
    returned = Err([kind |-> "UnsupportedAlgorithm", algorithm |-> "elliptic curves"])

C14_ECRefused_Original ==
    /\ (/\ call.fn = "SignatureHashType::sign, SignatureHashType::verify"
        /\ call.signature.tag = "Ok"
        /\ call.public_key.kind = "EC") => ECRefused
    /\ (call.fn = "KeyIdGenMethod::generate_from" /\ call.public_key.kind = "EC")
          => ECRefused
    /\ (call.fn = "Jwk::from_public_key" /\ call.public_key.kind = "EC") => ECRefused

\* C14 EC keys (amended): verify and Jwk::from_public_key on an elliptic-curve
\* public key fail with UnsupportedAlgorithm{"elliptic curves"};
\* generate_from does not refuse the key, SPKFullDER returns the digest of its
\* SubjectPublicKeyInfo.
C14_ECRefused ==
    /\ (/\ call.fn = "SignatureHashType::sign, SignatureHashType::verify"
        /\ call.signature.tag = "Ok"
        /\ call.public_key.kind = "EC") => ECRefused
    /\ (call.fn = "Jwk::from_public_key" /\ call.public_key.kind = "EC") => ECRefused
    /\ (/\ call.fn = "KeyIdGenMethod::generate_from"
        /\ call.public_key.kind = "EC") =>
          /\ ~ECRefused
          /\ call.method.method = "SPKFullDER" =>
                returned = Ok(hash(call.method.hash_algo,
                                   [der |-> "SubjectPublicKeyInfo",
                                    key |-> call.public_key]))

C14_Witness ==
    /\ call.fn = "SignatureHashType::sign, SignatureHashType::verify"
    /\ call.public_key.kind = "EC"
    /\ call.verify_ty = call.sign_ty
    /\ call.verify_msg = call.msg
    /\ ECRefused

(***************************************************************************)
(* Properties of the SEQUENCE walk.                                        *)
(***************************************************************************)
\* C15 SEQUENCE byte budget (as claimed): after any number of
\* next_element_seed calls the remaining budget is the len the Sequence was
\* created with minus the bytes the reader advanced; next_element_seed
\* returns None, consuming nothing, iff the remaining budget is 0; an element
\* whose decoder consumes more bytes than the remaining budget makes the call
\* return an error (TrailingBytes), the budget neither underflows nor wraps.
C15_ByteBudget ==
    /\ []((sequence.tag = "Sequence" /\ element.tag \in {"NoResult", "Ok"})
            => sequence.len = sequence.created_with - reader.pos)
    /\ [][(sequence.tag = "Sequence" /\ element' # element)
            => /\ element' = Ok(None) <=> sequence.len = 0
               /\ element' = Ok(None) => reader' = reader]_vars
    /\ [][(sequence.tag = "Sequence" /\ reader'.pos - reader.pos > sequence.len)
            => /\ element'.tag = "Err"
               /\ element'.error.kind = "TrailingBytes"]_vars

\* What holds of next_element_seed: the budget is tracked, and None returned
\* at 0, as long as no element consumed more than the budget that remained.
ByteBudgetOfCode ==
    /\ []((/\ sequence.tag = "Sequence"
           /\ element.tag \in {"NoResult", "Ok"}
           /\ reader.pos <= sequence.created_with)
            => sequence.len = sequence.created_with - reader.pos)
    /\ [][(sequence.tag = "Sequence" /\ element'.tag = "Ok" /\ sequence'.tag = "Sequence")
            => /\ element' = Ok(None) <=> sequence.len = 0
               /\ element' = Ok(None) => reader' = reader]_vars

(***************************************************************************)
(* Properties of the server.                                               *)
(***************************************************************************)
StoresUnder(name) == Cardinality({i \in DOMAIN stores : stores[i].name = name})
Present(name) == Len(Backend_find(repos, name).v) # 0
ReturnedFrom(fn) == response.fn = fn /\ response.ret.tag # "NoResult"
\* the backend keeps, under the name of a store call, what the call gave
Kept(store_call) ==
    /\ store_call.name \in DOMAIN repos.name
    /\ repos.name[store_call.name] = multihash_encode(store_call.cert)
    /\ Backend_get_cert(repos, repos.name[store_call.name]) = Ok(store_call.cert)
    /\ store_call.key.tag = "Some" =>
           Backend_get_key(repos, repos.name[store_call.name]) = Ok(store_call.key.v)
BootstrapNames == {RootName(config), IntermediateName(config)}
\* a step that is a call of the controller function fn
CallOf(fn) == server_pc = "ready" /\ response'.fn = fn

\* C16: generate_root_ca (generate_intermediate) returns Ok(false) and stores
\* nothing when the root's (the authority's) name is found; so however often
\* the two are repeated, at most one store is ever made under each of the two
\* names, exactly one once the function has returned Ok(true), and the
\* backend keeps the certificate and the key of that first store.
C16_BootstrapIdempotence ==
    /\ [](/\ \A name \in BootstrapNames : StoresUnder(name) <= 1
          /\ \A i \in DOMAIN stores : stores[i].name \in BootstrapNames => Kept(stores[i])
          /\ (ReturnedFrom("generate_root_ca") /\ response.ret.tag = "Ok") =>
                 Present(RootName(config))
          /\ (ReturnedFrom("generate_intermediate") /\ response.ret.tag = "Ok") =>
                 Present(IntermediateName(config))
          /\ (ReturnedFrom("generate_root_ca") /\ response.ret = Ok(TRUE)) =>
                 StoresUnder(RootName(config)) = 1
          /\ (ReturnedFrom("generate_intermediate") /\ response.ret = Ok(TRUE)) =>
                 StoresUnder(IntermediateName(config)) = 1)
    /\ [][(CallOf("generate_root_ca") /\ Present(RootName(config))) =>
              /\ response'.ret = Ok(FALSE)
              /\ UNCHANGED <<repos, stores>>]_vars
    /\ [][(CallOf("generate_intermediate") /\ Present(IntermediateName(config))) =>
              /\ response'.ret = Ok(FALSE)
              /\ UNCHANGED <<repos, stores>>]_vars

\* both functions have run, and generate_root_ca has run again and found the root
C16_Witness ==
    /\ ReturnedFrom("generate_root_ca")
    /\ response.ret = Ok(FALSE)
    /\ StoresUnder(RootName(config)) = 1
    /\ StoresUnder(IntermediateName(config)) = 1

\* the certificate the backend returns for a name
LoadedCert(name) ==
    Cert_from_der(Backend_get_cert(repos, Backend_find(repos, name).v[1].value).v).v
\* the certificate given to the latest call of store, after the step
LastStored == Cert_from_der(stores'[Len(stores')].cert).v
\* verify_chain(cert, [parent], t) is Ok
VerifiesUnder(cert, parent, t) ==
    /\ Cert_verify(cert, t).tag = "Ok"
    /\ verify_chain_body(cert, parent, 0, t).tag = "Break"

\* C17: when generate_intermediate creates the Authority, the certificate it
\* stores has ca = true, the subject of the root loaded from the backend as
\* its issuer and that root's SKI as its AKI, and verifies under the root;
\* when no root is stored it returns an error and stores nothing.
C17_BootstrapLinkage ==
    [][CallOf("generate_intermediate") =>
           /\ response'.ret = Ok(TRUE) =>
                  /\ Len(stores') = Len(stores) + 1
                  /\ stores'[Len(stores')].name = IntermediateName(config)
                  /\ basic_constraints(LastStored).v.ca = Some(TRUE)
                  /\ issuer_name(LastStored) = subject_name(LoadedCert(RootName(config)))
                  /\ authority_key_identifier(LastStored)
                         = subject_key_identifier(LoadedCert(RootName(config)))
                  /\ \A t \in Times :
                         VerifiesUnder(LastStored, LoadedCert(RootName(config)), t)
           /\ ~Present(RootName(config)) =>
                  /\ response'.ret.tag = "Err"
                  /\ UNCHANGED <<repos, stores>>]_vars

\* What the code does: the AKI of the Authority is the key identifier the
\* controller's method derives from the root's key, whatever SKI the root's
\* certificate carries.
BootstrapLinkageOfCode ==
    [][CallOf("generate_intermediate") =>
           /\ response'.ret = Ok(TRUE) =>
                  /\ Len(stores') = Len(stores) + 1
                  /\ stores'[Len(stores')].name = IntermediateName(config)
                  /\ basic_constraints(LastStored).v.ca = Some(TRUE)
                  /\ issuer_name(LastStored) = subject_name(LoadedCert(RootName(config)))
                  /\ authority_key_identifier(LastStored)
                         = generate_from(ControllerKeyIdGenMethod,
                                         LoadedCert(RootName(config)).tbs_certificate
                                             .subject_public_key_info)
           /\ ~Present(RootName(config)) =>
                  /\ response'.ret.tag = "Err"
                  /\ UNCHANGED <<repos, stores>>]_vars

\* the name resolves to a stored certificate and a stored key
Resolves(name) ==
    /\ Present(name)
    /\ Backend_get_cert(repos, Backend_find(repos, name).v[1].value).tag = "Ok"
    /\ Backend_get_key(repos, Backend_find(repos, name).v[1].value).tag = "Ok"
LoadedKey(name) ==
    PrivateKey_from_pkcs8(Backend_get_key(repos, Backend_find(repos, name).v[1].value).v)
\* the certificate returned is the leaf of the request under the CA of that name
IsLeafOf(cert, csr, ca_name) ==
    /\ subject_name(cert) = csr.certification_request_info.subject
    /\ cert.tbs_certificate.subject_public_key_info
           = csr.certification_request_info.subject_public_key_info
    /\ issuer_name(cert) = subject_name(LoadedCert(ca_name))
    /\ basic_constraints(cert).tag = "Ok" => basic_constraints(cert).v.ca # Some(TRUE)

\* C18: for a CA name that resolves to a stored certificate and key and a
\* request whose self-signature verifies, sign_certificate returns a
\* certificate with the request's subject and public key, the CA
\* certificate's subject as issuer, no CA flag, and the SKI of the stored CA
\* certificate as AKI; a request whose signature does not verify, a missing
\* CA name or a missing CA key give an error.
C18_LeafIssuance ==
    [][CallOf("sign_certificate") =>
           LET ca_name == response'.args[1]
               csr == response'.args[2]
           IN /\ (Resolves(ca_name) /\ Csr_verify(csr).tag = "Ok") =>
                     /\ response'.ret.tag = "Ok"
                     /\ IsLeafOf(response'.ret.v, csr, ca_name)
                     /\ authority_key_identifier(response'.ret.v)
                            = subject_key_identifier(LoadedCert(ca_name))
              /\ (~Resolves(ca_name) \/ Csr_verify(csr).tag # "Ok") =>
                     response'.ret.tag = "Err"]_vars

\* What the code does: the AKI of the leaf is the key identifier the
\* controller's method derives from the CA's stored key.
LeafIssuanceOfCode ==
    [][CallOf("sign_certificate") =>
           LET ca_name == response'.args[1]
               csr == response'.args[2]
           IN /\ (Resolves(ca_name) /\ Csr_verify(csr).tag = "Ok"
                     /\ LoadedKey(ca_name).tag = "Ok") =>
                     /\ response'.ret.tag = "Ok"
                     /\ IsLeafOf(response'.ret.v, csr, ca_name)
                     /\ authority_key_identifier(response'.ret.v)
                            = generate_from(ControllerKeyIdGenMethod,
                                            to_public_key(LoadedKey(ca_name).v))
              /\ (~Resolves(ca_name) \/ Csr_verify(csr).tag # "Ok") =>
                     response'.ret.tag = "Err"]_vars

\* the call of store that keeps a leaf: its subject's display string, its
\* DER, no key, the hex form of its SKI
LeafStoreCall(cert) ==
    StoreCall(Display(subject_name(cert)), Cert_to_der(cert), None,
              hex_encode(subject_key_identifier(cert).v))

\* C19: sign_certificate calls store exactly once, with the leaf's subject
\* display string, its DER, no key and the hex form of its SKI, when
\* save_certificate is set and the signing succeeded; in every other case it
\* calls store not at all and leaves the four maps of the backend as they
\* were.
C19_LeafStorage ==
    [][CallOf("sign_certificate") =>
           IF config.save_certificate /\ response'.ret.tag = "Ok"
           THEN /\ stores' = Append(stores, LeafStoreCall(response'.ret.v))
                /\ repos' = Backend_store(repos, Display(subject_name(response'.ret.v)),
                                          Cert_to_der(response'.ret.v), None,
                                          hex_encode(subject_key_identifier(
                                                         response'.ret.v).v))
           ELSE UNCHANGED <<repos, stores>>]_vars

\* a leaf has been signed and stored, with no key
C19_Witness ==
    /\ ReturnedFrom("sign_certificate")
    /\ response.ret.tag = "Ok"
    /\ config.save_certificate
    /\ Len(stores) > 0
    /\ stores[Len(stores)] = LeafStoreCall(response.ret.v)
    /\ multihash_encode(Cert_to_der(response.ret.v)) \notin DOMAIN repos.keys

\* C20: on every content of the backend find_ca_chain returns after
\* finitely many lookups: it looks no key identifier up twice, so it makes
\* at most as many lookups as the backend holds key identifiers.
C20_FindChainTerminates ==
    /\ \A i, j \in DOMAIN lookups : lookups[i] = lookups[j] => i = j
    /\ Len(lookups) <= Cardinality(DOMAIN repos.key_identifiers)

\* What the code does: the loop ends only on an error or when a certificate's
\* AKI is the key identifier looked up last.
FindChainOfCode ==
    [][(server_pc = "find_ca_chain" /\ server_pc' = "ready" /\ response'.ret.tag = "Ok") =>
           /\ Len(response'.ret.v) = Len(lookups) + 1
           /\ hex_encode(authority_key_identifier(Cert_from_der(cert_der).v).v)
                  = current_key_id]_vars

\* the certificate at the head of the walk of find_ca_chain
WalkHead == Cert_from_der(cert_der)
SelfIssued(cert) ==
    /\ authority_key_identifier(cert).tag = "Ok"
    /\ authority_key_identifier(cert) = subject_key_identifier(cert)
NoDuplicate(seq) == \A i, j \in DOMAIN seq : seq[i] = seq[j] => i = j
FindCaChainReturnsOk ==
    server_pc = "find_ca_chain" /\ server_pc' = "ready" /\ response'.ret.tag = "Ok"

\* C21: when the certificate at the head of the walk of find_ca_chain has an
\* AKI equal to its own SKI, the call returns the chain as it is, with no
\* further lookup and nothing appended (so the chain of a self-signed root is
\* that one certificate), and no certificate appears twice in a chain
\* returned.
C21_StopsAtSelfIssued ==
    [][/\ (server_pc = "find_ca_chain" /\ WalkHead.tag = "Ok" /\ SelfIssued(WalkHead.v)) =>
              /\ server_pc' = "ready"
              /\ response'.ret = Ok(chain)
              /\ lookups' = lookups
       /\ FindCaChainReturnsOk => NoDuplicate(response'.ret.v)]_vars

\* What the code does: it compares the head's AKI with the key identifier it
\* looked up last, which is empty at the first turn of the loop; a
\* self-issued certificate the walk starts at is looked up by its AKI, and
\* what the index returns is appended, before the loop can end.
StopsAtSelfIssuedOfCode ==
    [][(server_pc = "find_ca_chain" /\ WalkHead.tag = "Ok" /\ SelfIssued(WalkHead.v)) =>
           LET parent_key_id == hex_encode(authority_key_identifier(WalkHead.v).v)
           IN IF current_key_id = parent_key_id
              THEN /\ server_pc' = "ready"
                   /\ response'.ret = Ok(chain)
                   /\ lookups' = lookups
              ELSE /\ lookups' = Append(lookups, parent_key_id)
                   /\ server_pc' = "find_ca_chain" => Len(chain') = Len(chain) + 1
                   /\ server_pc' = "ready" => response'.ret.tag = "Err"]_vars

\* a step that is a call of MongoRepos::store
MongoStoreStep == server_pc = "start" /\ response'.fn = "store"
\* the four reads of the backend give what the call of store was given
ReadsGive(repos_, name, cert, key, key_identifier) ==
    LET found == MongoRepos_find(repos_, name) IN
    /\ found.tag = "Ok"
    /\ Len(found.v) > 0
    /\ MongoRepos_get_cert(repos_, found.v[1].value) = Ok(cert)
    /\ MongoRepos_get_key(repos_, found.v[1].value) = Ok(key)
    /\ MongoRepos_get_hash_from_key_identifier(repos_, key_identifier)
           = Ok(multihash_encode(cert))
    /\ MongoRepos_get_key_identifier_from_hash(repos_, multihash_encode(cert))
           = {Ok(key_identifier)}

\* C22: after store(name, cert, key, ski) returns Ok, get_cert and get_key of
\* the hash find(name) gives return cert and key, the key identifier index
\* maps ski to the multihash of cert and back; when store reports a failure
\* none of the four associations has been recorded.
C22_StoreContract ==
    [][MongoStoreStep =>
           IF response'.ret.tag = "Ok"
           THEN ReadsGive(repos', response'.args[1], response'.args[2],
                          response'.args[3], response'.args[4])
           ELSE repos' = repos]_vars

\* What the code does: a store that returns Ok has recorded the four
\* associations; one that fails at an insert has recorded those of the
\* inserts before it.
StoreContractOfCode ==
    [][MongoStoreStep =>
           LET name == response'.args[1]
               cert == response'.args[2]
               key == response'.args[3]
               key_identifier == response'.args[4]
               cert_hash == multihash_encode(cert)
               whole == Backend_store(repos, name, cert, Some(key), key_identifier)
           IN IF response'.ret.tag = "Ok"
              THEN /\ repos' = whole
                   /\ ReadsGive(repos', name, cert, key, key_identifier)
              ELSE /\ repos'.key_identifiers = repos.key_identifiers
                   /\ repos'.name \in {repos.name, whole.name}
                   /\ repos'.certificates \in {repos.certificates, whole.certificates}
                   /\ repos'.keys \in {repos.keys, whole.keys}
                   /\ repos'.keys # repos.keys => repos'.certificates = whole.certificates
                   /\ repos'.certificates # repos.certificates =>
                          repos'.name = whole.name]_vars

(***************************************************************************)
(* The order of the checks of verify_chain.                                *)
(***************************************************************************)
\* the call has returned from inside the loop, on the parent taken last
ReturnedInLoop ==
    /\ pc = "done"
    /\ parent_cert # NoCert
    /\ result # Err([kind |-> "CAChainNoRoot"])
KeyIdsReadable(current, parent) ==
    subject_key_identifier(parent).tag = "Ok" /\ authority_key_identifier(current).tag = "Ok"

\* C25: verify_chain returns the first failure in the order of the walk.  A
\* leaf whose validity excludes the clock value fails before a parent is
\* read.  For the parent taken last the checks come in this order: ca =
\* false gives IssuerIsNotCA with the parent's subject, then the pathlen,
\* then the parent's validity, then AuthorityKeyIdMismatch with the child's
\* AKI as expected and the parent's SKI as actual, not wrapped in
\* InvalidCertificate, then the child's signature; a parent that passes
\* them with SKI = AKI ends the call with Ok, and a call that has returned
\* examines nothing more.
C25_FirstFailure ==
    /\ [](/\ (pc \in {"loop", "done"} /\ number_certs = 0
                 /\ ~Contains(current_cert.tbs_certificate.validity, now)) =>
                 /\ ReturnedErr("InvalidCertificate")
                 /\ result.error.id = Display(subject_name(current_cert))
                 /\ parent_cert = NoCert
          /\ ReturnedInLoop =>
                 IF CaOf(parent_cert) = Some(FALSE)
                 THEN result = Err([kind |-> "IssuerIsNotCA",
                                    issuer_id |-> Display(subject_name(parent_cert))])
                 ELSE IF PathlenOf(parent_cert).tag = "Some"
                         /\ PathlenOf(parent_cert).v < Position
                 THEN result = TooDeep(parent_cert)
                 ELSE IF ~Contains(parent_cert.tbs_certificate.validity, now)
                 THEN /\ ReturnedErr("InvalidCertificate")
                      /\ result.error.id = Display(subject_name(parent_cert))
                      /\ result.error.source.kind
                             \in {"CertificateNotYetValid", "CertificateExpired"}
                 ELSE IF ~KeyIdsReadable(current_cert, parent_cert)
                 THEN ReturnedErr("InvalidCertificate")
                 ELSE IF subject_key_identifier(parent_cert)
                             # authority_key_identifier(current_cert)
                 THEN result = Err([kind |-> "AuthorityKeyIdMismatch",
                                    expected |-> authority_key_identifier(current_cert).v,
                                    actual |-> subject_key_identifier(parent_cert).v])
                 ELSE IF VerifyCurrentSignature(current_cert, parent_cert).tag # "Ok"
                 THEN result = VerifyCurrentSignature(current_cert, parent_cert)
                 ELSE IF authority_key_identifier(parent_cert)
                             = subject_key_identifier(parent_cert)
                 THEN result = Ok(Unit)
                 ELSE ReturnedErr("InvalidCertificate"))
    /\ [][pc = "done" => UNCHANGED chainVars]_vars

\* the call returned AuthorityKeyIdMismatch on the second parent, whose
\* key does not verify the child's signature either
C25_Witness ==
    /\ ReturnedErr("AuthorityKeyIdMismatch")
    /\ number_certs = 2
    /\ VerifyCurrentSignature(current_cert, parent_cert).tag # "Ok"
    /\ Contains(parent_cert.tbs_certificate.validity, now)

(***************************************************************************)
(* The records of the two CAs.                                             *)
(***************************************************************************)
\* the backend with every operation answering
Working(repos_) == [repos_ EXCEPT !.failing = {}]
\* the certificate a name resolves to
StoredCert(repos_, name) ==
    LET found == Backend_find(Working(repos_), name) IN
    IF found.tag # "Ok" \/ Len(found.v) = 0 THEN Err([kind |-> "NotFound"])
    ELSE LET der == Backend_get_cert(Working(repos_), found.v[1].value) IN
         IF der.tag # "Ok" THEN der ELSE Cert_from_der(der.v)
BothCasStored ==
    /\ server_pc = "ready"
    /\ StoredCert(repos, RootName(config)).tag = "Ok"
    /\ StoredCert(repos, IntermediateName(config)).tag = "Ok"
\* what the names and the key identifiers of the CAs held in held_ resolve
\* to in repos_, and the chain of the Authority
CaRecords(repos_, held_) ==
    LET root == StoredCert(held_, RootName(config)).v
        authority == StoredCert(held_, IntermediateName(config)).v
    IN <<Backend_find(Working(repos_), RootName(config)),
         Backend_find(Working(repos_), IntermediateName(config)),
         Backend_get_hash_from_key_identifier(
             Working(repos_), hex_encode(subject_key_identifier(root).v)),
         Backend_get_hash_from_key_identifier(
             Working(repos_), hex_encode(subject_key_identifier(authority).v)),
         find_ca_chain(Working(repos_), IntermediateName(config))>>

\* C23: once the Root CA and the Authority are stored, no later operation
\* (bootstrap again, sign_cert with save_certificate, post_cert of a
\* certificate a client supplies) changes what the names of the two CAs
\* resolve to, what the key-identifier index returns for their SKIs, or the
\* chain find_ca_chain returns for the Authority.
C23_CaRecordsNeverMutated ==
    [][BothCasStored => CaRecords(repos', repos) = CaRecords(repos, repos)]_vars

\* the names of the two CAs keep resolving to the same certificates: no
\* handler stores under a CA's name
CaNamesOfCode ==
    [][BothCasStored =>
           /\ StoredCert(repos', RootName(config)) = StoredCert(repos, RootName(config))
           /\ StoredCert(repos', IntermediateName(config))
                  = StoredCert(repos, IntermediateName(config))]_vars

(***************************************************************************)
(* The status of the responses.                                            *)
(***************************************************************************)
\* a step of the handler fn: handlers leave the condition of the backend
\* as it is
HandlerStep(fn) == CallOf(fn) /\ repos'.failing = repos.failing
HandlerNames ==
    {"post_cert", "sign_cert", "chain_default", "chain", "cert", "cert_old",
     "request_name"}
\* the headers of a request name a format post_cert and sign_cert read
HeadersSupported(req) ==
    \/ /\ req.content_type = Some("application/pkcs10")
       /\ req.content_transfer_encoding \in {Some("base64"), Some("binary")}
    \/ req.content_type = Some("application/json")
\* the certificate a multihash or a bare SHA-256 digest of the path gives
CertOfPath(repos_, multihash_capture) ==
    IF multihash_capture.tag # "Some" THEN Err([kind |-> "NotFound"])
    ELSE IF Backend_get_cert(repos_, multihash_capture.v).tag = "Ok"
    THEN Backend_get_cert(repos_, multihash_capture.v)
    ELSE IF sha256_to_multihash(multihash_capture.v).tag # "Ok"
    THEN Err([kind |-> "NotFound"])
    ELSE Backend_get_cert(repos_, sha256_to_multihash(multihash_capture.v).v)
\* the operation behind the handler fn completes on the request args
Completes(fn, args) ==
    CASE fn = "post_cert" ->
             /\ HeadersSupported(args[1])
             /\ post_cert_body(args[1]).tag = "Ok"
             /\ subject_key_identifier(post_cert_body(args[1]).v).tag = "Ok"
             /\ Display(issuer_name(post_cert_body(args[1]).v))
                    = Display(IntermediateName(config))
             /\ Backend_store_result(repos).tag = "Ok"
      [] fn = "sign_cert" ->
             /\ HeadersSupported(args[1])
             /\ sign_cert_body(config, args[1]).tag = "Ok"
             /\ \E serial_number \in SignSerials :
                    sign_certificate(sign_cert_body(config, args[1]).v.ca_name,
                                     sign_cert_body(config, args[1]).v.csr,
                                     config, repos, serial_number).ret.tag = "Ok"
      [] fn = "chain_default" ->
             find_ca_chain(repos, IntermediateName(config)).tag = "Ok"
      [] fn = "chain" ->
             /\ args[1].tag = "Some"
             /\ find_ca_chain(repos, args[1].v).tag = "Ok"
      [] fn \in {"cert", "cert_old"} ->
             /\ fn = "cert_old" => args[2].tag = "Some"
             /\ CertOfPath(repos, args[1]).tag = "Ok"
      [] fn = "request_name" ->
             /\ serde_json_from_slice(args[1].body).tag = "Ok"
             /\ Pem_parse(serde_json_from_slice(args[1].body).v.csr).tag = "Ok"
             /\ Csr_from_der(
                    Pem_parse(serde_json_from_slice(args[1].body).v.csr).v.data).tag = "Ok"

\* C24: every handler other than health answers 200 when its operation
\* completed and 400 with no body on every failure (headers missing or
\* unsupported, body that does not parse, error of the core or of the
\* backend); health answers 200 when backend.health() is Ok and 503
\* otherwise; post_cert and sign_cert answer 200 only with the store made,
\* never after a store that failed, and a 400 has stored nothing.
C24_StatusMapping ==
    /\ [][\A fn \in HandlerNames : HandlerStep(fn) =>
              /\ response'.ret.status
                     = IF Completes(fn, response'.args)
                       THEN StatusCode_OK ELSE StatusCode_BAD_REQUEST
              /\ response'.ret.status = StatusCode_BAD_REQUEST =>
                     /\ response'.ret.body = NoBody
                     /\ stores' = stores
                     /\ Working(repos') = Working(repos)
              /\ response'.ret.status = StatusCode_OK =>
                     /\ fn # "post_cert" => response'.ret.body # NoBody
                     /\ fn \in {"post_cert", "sign_cert"} =>
                            /\ "store" \notin repos.failing
                            /\ Len(stores') = Len(stores) + 1]_vars
    /\ [][HandlerStep("health") =>
              response'.ret.status
                  = IF Backend_health(repos).tag = "Ok"
                    THEN StatusCode_OK ELSE StatusCode_SERVICE_UNAVAILABLE]_vars

\* sign_cert answered 400 to a request that parses, with both CAs stored
\* and the backend's store failing
C24_Witness ==
    /\ ReturnedFrom("sign_cert")
    /\ response.ret.status = StatusCode_BAD_REQUEST
    /\ sign_cert_body(config, response.args[1]).tag = "Ok"
    /\ BothCasStored
    /\ "store" \in repos.failing

(***************************************************************************)
(* The certificates post_cert stores.                                      *)
(***************************************************************************)
\* C28: post_cert writes a certificate to the backend, and answers 200,
\* only when the certificate was signed by the Authority of this server:
\* its signature verifies under the public key of the stored Authority.  A
\* certificate that names the Authority as issuer but was signed with
\* another key is answered 400 and not stored.
C28_PostCertStoresOnlyOwn ==
    [][(HandlerStep("post_cert")
           /\ (stores' # stores \/ response'.ret.status = StatusCode_OK)) =>
           /\ StoredCert(repos, IntermediateName(config)).tag = "Ok"
           /\ VerifyCurrentSignature(
                  post_cert_body(response'.args[1]).v,
                  StoredCert(repos, IntermediateName(config)).v).tag = "Ok"]_vars

\* what post_cert does check: the certificate stored names the Authority
\* as its issuer
PostCertOfCode ==
    [][(HandlerStep("post_cert") /\ stores' # stores) =>
           /\ post_cert_body(response'.args[1]).tag = "Ok"
           /\ issuer_name(post_cert_body(response'.args[1]).v) = IntermediateName(config)
           /\ stores'[Len(stores')].cert = Cert_to_der(post_cert_body(response'.args[1]).v)]_vars

(***************************************************************************)
(* The chains find_ca_chain returns.                                       *)
(***************************************************************************)
CertOfPem(pem) == Cert_from_der(pem.data).v
\* a chain returned for name starts at the certificate stored under name,
\* follows the key-identifier index from AKI to certificate, and ends at a
\* self-issued certificate
ChainStructure(repos_, name) ==
    LET found == find_ca_chain(repos_, name) IN
    /\ found.tag \in {"Ok", "Err", "NoReturn"}
    /\ (Backend_find(repos_, name).tag # "Ok" \/ Len(Backend_find(repos_, name).v) = 0) =>
           found.tag = "Err"
    /\ found.tag = "Ok" =>
           /\ found.v[1] = to_pem("CERTIFICATE",
                                  Backend_get_cert(repos_,
                                      Backend_find(repos_, name).v[1].value).v)
           /\ \A i \in 1..(Len(found.v) - 1) :
                  found.v[i + 1]
                      = to_pem("CERTIFICATE",
                               Backend_get_cert(repos_,
                                   Backend_get_hash_from_key_identifier(repos_,
                                       hex_encode(authority_key_identifier(
                                           CertOfPem(found.v[i])).v)).v).v)
           /\ SelfIssued(CertOfPem(found.v[Len(found.v)]))
\* sign_certificate has returned a leaf issued under the Authority, on a
\* server whose bootstrap has stored both CAs; no call has followed it
LeafSignedAfterBootstrap ==
    /\ server_pc = "ready"
    /\ ReturnedFrom("sign_certificate")
    /\ response.ret.tag = "Ok"
    /\ response.args[1] = IntermediateName(config)
    /\ BothCasStored
ChainOfCerts(pems) == [i \in DOMAIN pems |-> CertOfPem(pems[i])]
AuthorityChain == find_ca_chain(repos, IntermediateName(config))

\* C26: a chain find_ca_chain returns starts at the certificate stored
\* under the name, each further element is what the key-identifier index
\* returns for the AKI of the one before, and the last is self-issued; a
\* failed lookup gives Err, never a part of a chain.  After bootstrap, the
\* chain of the issuer of a leaf sign_certificate has signed is [Authority,
\* Root], and verify_chain(leaf, chain, now) is Ok while the leaf is valid.
C26_FindChainStructure ==
    /\ server_pc = "ready" => \A name \in ChainCaNames : ChainStructure(repos, name)
    /\ LeafSignedAfterBootstrap =>
           /\ AuthorityChain.tag = "Ok"
           /\ AuthorityChain.v
                  = <<to_pem("CERTIFICATE",
                             Cert_to_der(StoredCert(repos, IntermediateName(config)).v)),
                      to_pem("CERTIFICATE",
                             Cert_to_der(StoredCert(repos, RootName(config)).v))>>
           /\ \A t \in Times :
                  Cert_verify(response.ret.v, t).tag = "Ok" =>
                      verify_chain(response.ret.v, ChainOfCerts(AuthorityChain.v), t).tag
                          = "Ok"

\* the structure of the chains returned holds in every state, and a leaf
\* verifies under the chain of the Authority when that chain is found and
\* the leaf's AKI is the SKI the Authority's certificate carries
FindChainStructureOfCode ==
    /\ server_pc = "ready" => \A name \in ChainCaNames : ChainStructure(repos, name)
    /\ (/\ LeafSignedAfterBootstrap
        /\ AuthorityChain.tag = "Ok"
        /\ authority_key_identifier(response.ret.v)
               = subject_key_identifier(CertOfPem(AuthorityChain.v[1]))) =>
           \A t \in Times :
               (/\ Cert_verify(response.ret.v, t).tag = "Ok"
                /\ \A i \in DOMAIN AuthorityChain.v :
                       Cert_verify(CertOfPem(AuthorityChain.v[i]), t).tag = "Ok") =>
                   verify_chain(response.ret.v, ChainOfCerts(AuthorityChain.v), t).tag
                       = "Ok"

(***************************************************************************)
(* CAs registered from the environment.                                    *)
(***************************************************************************)
\* check_certs_in_env has stored the root certificate of the configuration,
\* whose subject is the name of the realm's Root CA
EnvRootRegistered ==
    /\ config.root_cert.tag = "Some"
    /\ subject_name(CertOfPem(config.root_cert.v)) = RootName(config)
    /\ \E i \in DOMAIN stores :
           /\ stores[i].cert = config.root_cert.v.data
           /\ Kept(stores[i])

\* C27: when check_certs_in_env has registered a root certificate whose
\* subject CN is "{realm} Root CA", a following generate_root_ca finds it
\* present, returns Ok(false) and stores no new CA: the name the
\* certificate is registered under is the name bootstrap looks up.
C27_ProvisionedCaHonoured ==
    [][(CallOf("generate_root_ca") /\ EnvRootRegistered) =>
           /\ Backend_find(repos, RootName(config)).tag = "Ok"
           /\ Len(Backend_find(repos, RootName(config)).v) > 0
           /\ response'.ret.tag = "Ok"
           /\ response'.ret.v = FALSE
           /\ stores' = stores
           /\ repos' = repos]_vars

\* the name check_certs_in_env stores under is the display string of the
\* subject, "CN=" and the common name; generate_root_ca looks the bare name
\* up, and returns Ok(false) exactly when that lookup finds an entry
ProvisionedCaOfCode ==
    /\ [](\A i \in DOMAIN stores :
              (config.root_cert.tag = "Some"
                   /\ stores[i].cert = config.root_cert.v.data) =>
                  stores[i].name = Display(subject_name(CertOfPem(config.root_cert.v))))
    /\ [][(CallOf("generate_root_ca") /\ response'.ret.tag = "Ok") =>
              (response'.ret.v = FALSE
                   <=> Len(Backend_find(repos, RootName(config)).v) > 0)]_vars

(***************************************************************************)
(* Bootstrap on a backend whose find fails.                                *)
(***************************************************************************)
BootstrapStep == HandlerStep("generate_root_ca") \/ HandlerStep("generate_intermediate")

\* C29: when backend.find fails during generate_root_ca or
\* generate_intermediate the call returns Err and stores nothing; a CA is
\* stored only when find succeeded and returned no entry for its name.
C29_BootstrapShowsBackendErrors ==
    [][BootstrapStep =>
           /\ "find" \in repos.failing =>
                  /\ response'.ret.tag = "Err"
                  /\ stores' = stores
                  /\ repos' = repos
           /\ stores' # stores =>
                  Backend_find(repos, stores'[Len(stores')].name) = Ok(<<>>)]_vars

\* generate_intermediate reads the root through a find whose error it
\* returns; with find failing it stores nothing
BootstrapErrorsOfCode ==
    [][(HandlerStep("generate_intermediate") /\ "find" \in repos.failing) =>
           /\ response'.ret = Message("error while fetching root")
           /\ stores' = stores
           /\ repos' = repos]_vars

(***************************************************************************)
(* Bootstrap under interleaving.                                           *)
(***************************************************************************)
BootstrapDone == server_pc = "ready" /\ \A p \in Invocations : invocations[p].pc = "done"

\* C30: for any interleaving of two bootstrap invocations against a backend
\* that was empty, at most one Root CA and one Authority are generated and
\* stored, and when both have ended the AKI of the stored Authority is the
\* SKI of the certificate find("{realm} Root CA")[0] resolves to, and the
\* chain find_ca_chain returns for the Authority verifies.
C30_BootstrapInterleaving ==
    /\ StoresUnder(RootName(config)) <= 1
    /\ StoresUnder(IntermediateName(config)) <= 1
    /\ BootstrapDone =>
           /\ StoredCert(repos, RootName(config)).tag = "Ok"
           /\ StoredCert(repos, IntermediateName(config)).tag = "Ok"
           /\ authority_key_identifier(StoredCert(repos, IntermediateName(config)).v)
                  = subject_key_identifier(StoredCert(repos, RootName(config)).v)
           /\ AuthorityChain.tag = "Ok"
           /\ \A t \in Times :
                  (\A i \in DOMAIN AuthorityChain.v :
                       Cert_verify(CertOfPem(AuthorityChain.v[i]), t).tag = "Ok") =>
                      verify_chain(CertOfPem(AuthorityChain.v[1]),
                                   Tail(ChainOfCerts(AuthorityChain.v)), t).tag = "Ok"

\* the steps of an invocation, taken with nothing between them, are
\* generate_root_ca and generate_intermediate; and an invocation creates a
\* CA only after its own find returned no entry for the name
BootstrapOfCode ==
    /\ server_pc = "ready" =>
           /\ \A pk \in BOOTSTRAP_4096_POOL :
                  generate_root_ca(config, repos, pk).stores
                      = IF generate_root_ca_exists(config, repos) THEN <<>>
                        ELSE generate_root_ca_create(config, repos, pk).stores
           /\ \A pk \in BOOTSTRAP_2048_POOL :
                  generate_intermediate(config, repos, pk).stores
                      = IF generate_intermediate_exists(config, repos) THEN <<>>
                        ELSE IF generate_intermediate_find_root(config, repos).tag # "Ok"
                        THEN <<>>
                        ELSE LET root == generate_intermediate_get_root(
                                     repos,
                                     generate_intermediate_find_root(config, repos).v)
                             IN IF root.tag # "Ok" THEN <<>>
                                ELSE generate_intermediate_create(
                                         config, repos, root.v.root_cert,
                                         root.v.root_key, pk).stores
    /\ BootstrapDone =>
           /\ StoredCert(repos, RootName(config)).tag = "Ok"
           /\ StoredCert(repos, IntermediateName(config)).tag = "Ok"

====
